---- MODULE Spec2Model ----
(***************************************************************************)
(* Octant -> DAOIP-5 converter (octant-daoip5-with-fallback).              *)
(*                                                                         *)
(* The model follows the Python source: OctantAPIClient._make_request      *)
(* (the Resilient Fetcher), DAOIP5Converter._get_eth_rate_for_epoch (the   *)
(* Rate Cache), DAOIP5Converter.generate_applications (Epoch Status        *)
(* Resolver + Allocation Aggregator) and main (the Orchestrator).          *)
(*                                                                         *)
(* Python values are modelled as records:                                  *)
(*   None                  [tag |-> "None"]                                *)
(*   a JSON object (dict)  [tag |-> "doc", nonempty, ...]                  *)
(*   a float               [tag |-> "float", v]                            *)
(*   a numeric string      [numeric |-> TRUE, int |-> n]                   *)
(*   a non-numeric string  [numeric |-> FALSE, int |-> 0]                  *)
(* Amounts are counted in units of 10^16 wei (0.01 ETH), so that with a    *)
(* whole-number rate r the USD value of n units is n * r cents.            *)
(***************************************************************************)
EXTENDS Integers, Sequences, FiniteSets, TLC

\* ------------------------------------------------------------------ bounds
\* config.max_retries ranges over 0..MaxRetriesBound in SpecFetch
MaxRetriesBound == 4
\* longest allocation list of an allocations document
MaxAllocs == 2
\* longest reward list of a rewards document
MaxRewards == 1
\* longest leaf list of a merkle tree document
MaxLeaves == 2
\* highest epoch number
MaxEpoch == 2
\* number of rate lookups the driver of SpecRate issues
MaxLookups == 4

\* ------------------------------------------------------- program constants
\* OctantConfig.max_retries
DefaultMaxRetries == 3
\* OctantConfig.retry_delay
DefaultRetryDelay == 1

\* ------------------------------------------------------------------ values
None == [tag |-> "None"]

\* a key that a dict does not hold
Missing == [tag |-> "missing"]

Float(n) == [tag |-> "float", v |-> n]

Str(n) == [numeric |-> TRUE, int |-> n]

BadStr == [numeric |-> FALSE, int |-> 0]

\* {} : a JSON object without any key
EmptyDoc == [tag |-> "doc", nonempty |-> FALSE, haskey |-> FALSE, items |-> <<>>]

\* a JSON object that has keys, but not the list key the converter reads
OtherDoc == [tag |-> "doc", nonempty |-> TRUE, haskey |-> FALSE, items |-> <<>>]

\* {"allocations": items} / {"rewards": items}
ListDoc(items) == [tag |-> "doc", nonempty |-> TRUE, haskey |-> TRUE, items |-> items]

\* {"root": root, "leaves": items}
MerkleDoc(root, items) ==
    [tag |-> "doc", nonempty |-> TRUE, haskey |-> TRUE, items |-> items, root |-> root]

\* {"currentEpoch": n}, {"chainId": n}, ...
ValueDoc(n) == [tag |-> "doc", nonempty |-> TRUE, haskey |-> TRUE, value |-> n]

\* Python truthiness of an Optional[Dict]: `not data` holds for None and {}
Truthy(d) == d.tag = "doc" /\ d.nonempty

\* Python truthiness of an Optional[float]: `not rate` holds for None and 0.0
TruthyRate(r) == r.tag = "float" /\ r.v # 0

\* all sequences over S of length 0..n
SeqUpTo(S, n) == UNION {[1..k -> S] : k \in 0..n}

Epochs == 1..MaxEpoch

VARIABLES
    config,          \* OctantConfig: max_retries, retry_delay
    req,             \* the running _make_request call
    rl,              \* the running _get_eth_rate_for_epoch call
    eth_usd_rates,   \* DAOIP5Converter.eth_usd_rates: epoch -> rate
    hist_requests,   \* historical-rate requests issued, per epoch
    lookups,         \* rate lookups made, per epoch
    ga,              \* the running generate_applications call
    chain_info,      \* DAOIP5Converter.chain_info
    mn,              \* main's locals and position
    written,         \* the files written, in order
    nz               \* the last call of an address normalizer

vars == <<config, req, rl, eth_usd_rates, hist_requests, lookups,
          ga, chain_info, mn, written, nz>>

\* ------------------------------------------------------ OctantAPIClient
\* the API client's methods: the endpoint each requests and its allow_404_400
get_current_epoch == [kind |-> "current", epoch |-> 0, allow_404_400 |-> FALSE]

get_epoch_info(epoch) == [kind |-> "info", epoch |-> epoch, allow_404_400 |-> FALSE]

get_epoch_status(epoch) == [kind |-> "status", epoch |-> epoch, allow_404_400 |-> FALSE]

get_projects_for_epoch(epoch) ==
    [kind |-> "projects", epoch |-> epoch, allow_404_400 |-> FALSE]

get_project_details(epoch) ==
    [kind |-> "details", epoch |-> epoch, allow_404_400 |-> FALSE]

get_allocations_for_epoch(epoch) ==
    [kind |-> "allocations", epoch |-> epoch, allow_404_400 |-> FALSE]

get_project_rewards(epoch) ==
    [kind |-> "rewards", epoch |-> epoch, allow_404_400 |-> TRUE]

get_merkle_tree(epoch) ==
    [kind |-> "merkle", epoch |-> epoch, allow_404_400 |-> TRUE]

get_chain_info == [kind |-> "chain", epoch |-> 0, allow_404_400 |-> FALSE]

get_version_info == [kind |-> "version", epoch |-> 0, allow_404_400 |-> FALSE]

\* called by _load_system_info and main; the client class does not define it
get_indexed_epoch == [kind |-> "indexed", epoch |-> 0, allow_404_400 |-> FALSE]

\* what one HTTP attempt can end in: a 2xx response with a body, a 400, a 404,
\* another error status (raise_for_status raises), or no response at all
Responses == {"ok", "http400", "http404", "http5xx", "timeout"}

ReqIdle ==
    [pc |-> "idle", kind |-> "none", epoch |-> 0, allow |-> FALSE, attempt |-> 0,
     requests |-> 0, failures |-> 0, sleeps |-> <<>>, last |-> "none", result |-> None]

\* ExpectedAbsence that knows the 404 only
ExpectedAbsence_Only404(allow, resp) == allow /\ resp = "http404"

\* `allow_404_400 and response.status_code in [400, 404]`
ExpectedAbsence(allow, resp) == allow /\ resp \in {"http400", "http404"}

\* HasAttemptsLeft off by one: one attempt more than the cap
HasAttemptsLeft_OffByOne(attempt) == attempt < config.max_retries

\* `attempt < self.config.max_retries - 1`
HasAttemptsLeft(attempt) == attempt < config.max_retries - 1

\* BackoffDelay that grows linearly
BackoffDelay_Linear(attempt) == config.retry_delay * (attempt + 1)

\* `self.config.retry_delay * (2 ** attempt)`
BackoffDelay(attempt) == config.retry_delay * (2 ^ attempt)

\* `for attempt in range(self.config.max_retries)`: the loop body runs at all
LoopEntered == config.max_retries > 0

\* entering _make_request(endpoint, allow_404_400)
make_request_call(call) ==
    [ReqIdle EXCEPT !.pc = IF LoopEntered THEN "attempt" ELSE "returned",
                    !.kind = call.kind, !.epoch = call.epoch,
                    !.allow = call.allow_404_400]

\* make_request_attempt that hands out an error body, not None, when the
\* attempts are used up
make_request_attempt_ErrorBody(r, resp, body) ==
    LET issued == [r EXCEPT !.requests = @ + 1, !.last = resp] IN
    IF ExpectedAbsence(r.allow, resp)
    THEN [issued EXCEPT !.pc = "returned", !.result = None]
    ELSE IF resp = "ok"
    THEN [issued EXCEPT !.pc = "returned", !.result = body]
    ELSE IF HasAttemptsLeft(r.attempt)
    THEN [issued EXCEPT !.failures = @ + 1,
                        !.sleeps = Append(@, BackoffDelay(r.attempt)),
                        !.attempt = @ + 1]
    ELSE [issued EXCEPT !.failures = @ + 1, !.pc = "returned", !.result = OtherDoc]

\* one iteration of the retry loop of _make_request, the attempt ending in resp
make_request_attempt(r, resp, body) ==
    LET issued == [r EXCEPT !.requests = @ + 1, !.last = resp] IN
    IF ExpectedAbsence(r.allow, resp)
    THEN [issued EXCEPT !.pc = "returned", !.result = None]
    ELSE IF resp = "ok"
    THEN [issued EXCEPT !.pc = "returned", !.result = body]
    ELSE IF HasAttemptsLeft(r.attempt)
    THEN [issued EXCEPT !.failures = @ + 1,
                        !.sleeps = Append(@, BackoffDelay(r.attempt)),
                        !.attempt = @ + 1]
    ELSE [issued EXCEPT !.failures = @ + 1, !.pc = "returned", !.result = None]

\* ----------------------------------------------------- upstream documents
Projects == {"0xAA", "0xBB"}

AllocAmounts == {Str(0), Str(50), Str(100), BadStr}

AllocationRecords == [project : Projects, donor : {"0xD1"}, amount : AllocAmounts]

\* int() reads a signed decimal string, so a matched amount may be negative
RewardRecords ==
    [address : Projects, allocated : {Str(0), Str(150)},
     matched : {Str(0), Str(50), Str(0 - 100), Str(0 - 150), Str(0 - 200)}]

Leaves == [address : Projects, amount : {Str(150), Str(70)}]

AllocationDocs ==
    {EmptyDoc, OtherDoc} \cup {ListDoc(l) : l \in SeqUpTo(AllocationRecords, MaxAllocs)}

RewardDocs ==
    {EmptyDoc, OtherDoc} \cup {ListDoc(l) : l \in SeqUpTo(RewardRecords, MaxRewards)}

MerkleDocs ==
    {EmptyDoc} \cup {MerkleDoc("0xR", l) : l \in SeqUpTo(Leaves, MaxLeaves)}

\* the bodies a 2xx response of an endpoint can carry
Bodies(kind) ==
    CASE kind = "allocations" -> AllocationDocs
      [] kind = "rewards" -> RewardDocs
      [] kind = "merkle" -> MerkleDocs
      [] kind = "current" -> {EmptyDoc} \cup {ValueDoc(n) : n \in Epochs}
      [] kind = "chain" -> {EmptyDoc, ValueDoc(1), ValueDoc(11155111)}
      [] OTHER -> {EmptyDoc, ValueDoc(0)}

\* a small selection of the same documents
FewBodies(kind) ==
    CASE kind = "allocations" ->
           {EmptyDoc,
            ListDoc(<<[project |-> "0xAA", donor |-> "0xD1", amount |-> Str(100)]>>),
            ListDoc(<<[project |-> "0xAA", donor |-> "0xD1", amount |-> BadStr]>>)}
      [] kind = "rewards" ->
           {ListDoc(<<[address |-> "0xAA", allocated |-> Str(150), matched |-> Str(50)]>>)}
      [] kind = "merkle" ->
           {MerkleDoc("0xR", <<[address |-> "0xAA", amount |-> Str(150)]>>)}
      [] kind = "current" -> {ValueDoc(n) : n \in Epochs}
      [] kind = "chain" -> {ValueDoc(1), ValueDoc(11155111)}
      [] kind \in {"info", "status"} -> {EmptyDoc, ValueDoc(0)}
      [] OTHER -> {ValueDoc(0)}

\* ------------------------------------------------------------ _make_request
\* one attempt of the running request: session.get answers, or fails
MR_AttemptFrom(few) ==
    /\ req.pc = "attempt"
    /\ \E resp \in Responses :
         \E body \in (IF resp # "ok" THEN {None}
                       ELSE IF few THEN FewBodies(req.kind) ELSE Bodies(req.kind)) :
            req' = make_request_attempt(req, resp, body)
    /\ UNCHANGED <<config, nz, rl, eth_usd_rates, hist_requests, lookups,
                   ga, chain_info, mn, written>>

MR_Attempt == MR_AttemptFrom(FALSE)

MR_AttemptFew == MR_AttemptFrom(TRUE)

\* a caller of the API client issues a request
ApiCalls ==
    {get_current_epoch, get_chain_info, get_version_info}
      \cup {get_epoch_info(e) : e \in Epochs}
      \cup {get_epoch_status(e) : e \in Epochs}
      \cup {get_projects_for_epoch(e) : e \in Epochs}
      \cup {get_allocations_for_epoch(e) : e \in Epochs}
      \cup {get_project_rewards(e) : e \in Epochs}
      \cup {get_merkle_tree(e) : e \in Epochs}

FetchDriver ==
    /\ req.pc \in {"idle", "returned"}
    /\ \E call \in ApiCalls : req' = make_request_call(call)
    /\ UNCHANGED <<config, nz, rl, eth_usd_rates, hist_requests, lookups,
                   ga, chain_info, mn, written>>

\* -------------------------------------------------------------- Rate Cache
\* the `price` get_eth_to_usd_rate reads from CoinGecko: None when the request
\* fails, the status is not 200 or the field is missing
RateResponses == {None, Float(0), Float(2000), Float(3000)}

\* get_eth_to_usd_rate: `if price: return float(price)`, otherwise None
get_eth_to_usd_rate(price) == IF TruthyRate(price) THEN price ELSE None

\* get_eth_price_for_epoch_end: the historical request for the epoch's end date
get_eth_price_for_epoch_end(price) == get_eth_to_usd_rate(price)

RlIdle ==
    [pc |-> "idle", epoch |-> 0, hit |-> FALSE, hist |-> "not_asked",
     cur |-> "not_asked", stored |-> FALSE, rate |-> None]

\* CacheHit of a cache that is never read
CacheHit_Never(epoch) == FALSE

\* `if epoch in self.eth_usd_rates`
CacheHit(epoch) == eth_usd_rates[epoch] # Missing

\* NeedsFallback without the fallback
NeedsFallback_Never(rate) == FALSE

\* `if not rate:` the historical rate failed, fall back to the current rate
NeedsFallback(rate) == ~TruthyRate(rate)

\* `if rate:` the rate is stored in the cache
ShouldStore(rate) == TruthyRate(rate)

\* `self.eth_usd_rates[epoch] = rate`
StoreRate(rates, epoch, rate) == [rates EXCEPT ![epoch] = rate]

\* entering _get_eth_rate_for_epoch(epoch): the cache check
rate_call(epoch) ==
    IF CacheHit(epoch)
    THEN [RlIdle EXCEPT !.pc = "returned", !.epoch = epoch, !.hit = TRUE,
                        !.rate = eth_usd_rates[epoch]]
    ELSE [RlIdle EXCEPT !.pc = "historical", !.epoch = epoch]

AskedTag(rate) == IF TruthyRate(rate) THEN "rate" ELSE "no_rate"

\* `rate = self.api.get_eth_price_for_epoch_end(epoch)`, the rest of the
\* function when that rate is usable
RL_Historical ==
    /\ rl.pc = "historical"
    /\ \E price \in RateResponses :
         LET rate == get_eth_price_for_epoch_end(price) IN
         /\ hist_requests' = [hist_requests EXCEPT ![rl.epoch] = @ + 1]
         /\ IF NeedsFallback(rate)
            THEN /\ rl' = [rl EXCEPT !.pc = "current", !.hist = AskedTag(rate),
                                     !.rate = rate]
                 /\ UNCHANGED eth_usd_rates
            ELSE /\ rl' = [rl EXCEPT !.pc = "returned", !.hist = AskedTag(rate),
                                     !.rate = rate, !.stored = ShouldStore(rate)]
                 /\ eth_usd_rates' =
                      IF ShouldStore(rate)
                      THEN StoreRate(eth_usd_rates, rl.epoch, rate)
                      ELSE eth_usd_rates
    /\ UNCHANGED <<config, nz, req, lookups, ga, chain_info, mn, written>>

\* `rate = self.api.get_eth_to_usd_rate()`, the store and the return
RL_Current ==
    /\ rl.pc = "current"
    /\ \E price \in RateResponses :
         LET rate == get_eth_to_usd_rate(price) IN
              /\ rl' = [rl EXCEPT !.pc = "returned", !.cur = AskedTag(rate),
                             !.rate = rate, !.stored = ShouldStore(rate)]
         /\ eth_usd_rates' =
              IF ShouldStore(rate)
              THEN StoreRate(eth_usd_rates, rl.epoch, rate)
              ELSE eth_usd_rates
    /\ UNCHANGED <<config, nz, req, hist_requests, lookups, ga, chain_info, mn, written>>

RECURSIVE SumOver(_, _)
SumOver(f, S) ==
    IF S = {} THEN 0 ELSE LET x == CHOOSE y \in S : TRUE IN f[x] + SumOver(f, S \ {x})

\* some caller of the converter looks a rate up
RateDriver ==
    /\ rl.pc \in {"idle", "returned"}
    /\ SumOver(lookups, Epochs) < MaxLookups
    /\ \E e \in Epochs :
         /\ rl' = rate_call(e)
         /\ lookups' = [lookups EXCEPT ![e] = @ + 1]
    /\ UNCHANGED <<config, nz, req, eth_usd_rates, hist_requests, ga,
                   chain_info, mn, written>>

\* ------------------------------------------------------- DAOIP5Converter
\* _generate_caip10_address that never looks at the chain metadata
_generate_caip10_address_AlwaysMainnet(address) ==
    [namespace |-> "eip155", chain |-> 1, address |-> address]

\* _generate_caip10_address: eip155:<chain id>:<address>
_generate_caip10_address(address) ==
    IF ~Truthy(chain_info)
    THEN [namespace |-> "eip155", chain |-> 1, address |-> address]
    ELSE [namespace |-> "eip155",
          chain |-> IF chain_info.haskey THEN chain_info.value ELSE 1,
          address |-> address]

ZeroAddress == "0x0000000000000000000000000000000000000000"

\* f"{usd_amount:.2f}": a string of dollars with 2 decimals, held as cents
UsdStr(cents) == [tag |-> "str", cents |-> cents]

\* _wei_to_usd_str that reports zero dollars when it has no rate
_wei_to_usd_str_ZeroDefault(wei_amount, eth_rate) ==
    IF ~wei_amount.numeric THEN None
    ELSE IF ~TruthyRate(eth_rate) THEN UsdStr(0)
    ELSE UsdStr(wei_amount.int * eth_rate.v)

\* _wei_to_usd_str, given the rate _get_eth_rate_for_epoch returned
_wei_to_usd_str(wei_amount, eth_rate) ==
    IF ~TruthyRate(eth_rate) THEN None
    ELSE IF ~wei_amount.numeric THEN None
    ELSE UsdStr(wei_amount.int * eth_rate.v)

\* `allocations_data and allocations_data.get("allocations")`
HasAllocations(allocations_data) ==
    /\ Truthy(allocations_data)
    /\ allocations_data.haskey
    /\ Len(allocations_data.items) > 0

\* EpochStatus with `and` for `or`: not finalized only when both are missing
EpochStatus_BothMissing(allocations_data, rewards_data, merkle_data) ==
    IF ~HasAllocations(allocations_data) THEN "no_allocations"
    ELSE IF ~Truthy(rewards_data) /\ ~Truthy(merkle_data) THEN "not_finalized"
    ELSE "completed"

\* the epoch status of generate_applications (the if / elif on the three fetches)
EpochStatus(allocations_data, rewards_data, merkle_data) ==
    IF ~HasAllocations(allocations_data) THEN "no_allocations"
    ELSE IF ~Truthy(rewards_data) \/ ~Truthy(merkle_data) THEN "not_finalized"
    ELSE "completed"

\* ReturnsEarly that forgets the not_finalized state
ReturnsEarly_OnlyNoAllocations(epoch_status) == epoch_status = "no_allocations"

\* `if not epoch_concluded:` the early return
ReturnsEarly(epoch_status) == epoch_status # "completed"

\* the keys generate_applications adds to _get_data_freshness_metadata, and
\* the rates that block copies from the cache (the block's own request for the
\* current rate goes to get_eth_to_usd_rate directly, past the cache)
Metadata(epoch, epoch_status) ==
    [epoch_processed |-> epoch,
     epoch_conclusion_status |-> epoch_status,
     historical_rates_by_epoch |-> eth_usd_rates]

\* PlaceholderResult that takes a non-empty document for present allocations
PlaceholderResult_DocIsPresence(epoch, epoch_status, allocations_data, rewards_data, merkle_data) ==
    [kind |-> "placeholder",
     applications |-> <<>>,
     epoch_status |-> epoch_status,
     has_allocations |-> Truthy(allocations_data),
     has_rewards |-> Truthy(rewards_data),
     has_merkle_tree |-> Truthy(merkle_data),
     metadata |-> Metadata(epoch, epoch_status)]

\* the result of the early return for an epoch that is not concluded
PlaceholderResult(epoch, epoch_status, allocations_data, rewards_data, merkle_data) ==
    [kind |-> "placeholder",
     applications |-> <<>>,
     epoch_status |-> epoch_status,
     has_allocations |-> HasAllocations(allocations_data),
     has_rewards |-> Truthy(rewards_data),
     has_merkle_tree |-> Truthy(merkle_data),
     metadata |-> Metadata(epoch, epoch_status)]

\* the result for a concluded epoch
FullResult(epoch, epoch_status, epoch_concluded, applications, rewards_data, merkle_data) ==
    [kind |-> "full",
     applications |-> applications,
     epoch_concluded |-> epoch_concluded,
     epoch_status |-> epoch_status,
     total_applications |-> Len(applications),
     has_allocations |-> TRUE,
     has_rewards |-> Truthy(rewards_data),
     has_merkle_tree |-> Truthy(merkle_data),
     metadata |-> Metadata(epoch, epoch_status)]

\* position of project in the groups built so far, 0 when it has none
GroupIndex(groups, project) ==
    IF \E i \in 1..Len(groups) : groups[i].project = project
    THEN CHOOSE i \in 1..Len(groups) : groups[i].project = project
    ELSE 0

\* GroupAllocations with `=` for `+=`: a group keeps its last amount only
RECURSIVE GroupAllocations_Overwrite(_, _)
GroupAllocations_Overwrite(allocations, groups) ==
    IF allocations = <<>> THEN groups
    ELSE LET allocation == Head(allocations)
             found == GroupIndex(groups, allocation.project)
             opened == IF found = 0
                       THEN Append(groups, [project |-> allocation.project,
                                            totalAllocated |-> 0,
                                            donors |-> <<>>,
                                            allocations |-> <<>>])
                       ELSE groups
             i == IF found = 0 THEN Len(opened) ELSE found
         IN  GroupAllocations_Overwrite(Tail(allocations),
                [opened EXCEPT ![i].totalAllocated = allocation.amount.int,
                               ![i].donors = Append(@, allocation.donor),
                               ![i].allocations = Append(@, allocation)])

\* GroupAllocations that drops the records of amount zero
RECURSIVE GroupAllocations_SkipZero(_, _)
GroupAllocations_SkipZero(allocations, groups) ==
    IF allocations = <<>> THEN groups
    ELSE LET allocation == Head(allocations)
             found == GroupIndex(groups, allocation.project)
             opened == IF found = 0
                       THEN Append(groups, [project |-> allocation.project,
                                            totalAllocated |-> 0,
                                            donors |-> <<>>,
                                            allocations |-> <<>>])
                       ELSE groups
             i == IF found = 0 THEN Len(opened) ELSE found
         IN  IF allocation.amount.int = 0
             THEN GroupAllocations_SkipZero(Tail(allocations), groups)
             ELSE GroupAllocations_SkipZero(Tail(allocations),
                    [opened EXCEPT ![i].totalAllocated = @ + allocation.amount.int,
                                   ![i].donors = Append(@, allocation.donor),
                                   ![i].allocations = Append(@, allocation)])

\* the grouping loop: project_allocations, in insertion order
RECURSIVE GroupAllocations(_, _)
GroupAllocations(allocations, groups) ==
    IF allocations = <<>> THEN groups
    ELSE LET allocation == Head(allocations)
             found == GroupIndex(groups, allocation.project)
             opened == IF found = 0
                       THEN Append(groups, [project |-> allocation.project,
                                            totalAllocated |-> 0,
                                            donors |-> <<>>,
                                            allocations |-> <<>>])
                       ELSE groups
             i == IF found = 0 THEN Len(opened) ELSE found
         IN  GroupAllocations(Tail(allocations),
                [opened EXCEPT ![i].totalAllocated = @ + allocation.amount.int,
                               ![i].donors = Append(@, allocation.donor),
                               ![i].allocations = Append(@, allocation)])

\* int(amount) raises ValueError for some record of the list
GroupingRaises(allocations) ==
    \E i \in 1..Len(allocations) : ~allocations[i].amount.numeric

\* the first reward record with the project's address, None without one
FindReward(rewards_data, project_address) ==
    IF Truthy(rewards_data) /\ rewards_data.haskey
       /\ \E i \in 1..Len(rewards_data.items) :
             rewards_data.items[i].address = project_address
    THEN LET i == CHOOSE j \in 1..Len(rewards_data.items) :
                     /\ rewards_data.items[j].address = project_address
                     /\ \A h \in 1..(j - 1) :
                           rewards_data.items[h].address # project_address
         IN  rewards_data.items[i]
    ELSE None

\* int(allocated) or int(matched) raises ValueError
RewardRaises(project_rewards) ==
    /\ project_rewards # None
    /\ ~project_rewards.allocated.numeric \/ ~project_rewards.matched.numeric

\* Status that takes the matched amount alone for the funded test
Status_MatchedOnly(project_rewards) ==
    IF project_rewards = None THEN "pending"
    ELSE IF project_rewards.matched.int > 0 THEN "funded"
    ELSE IF project_rewards.allocated.int > 0 THEN "approved"
    ELSE "pending"

\* Status with its two tests in the other order: allocated > 0 is tried first
Status_ApprovedFirst(project_rewards) ==
    IF project_rewards = None THEN "pending"
    ELSE IF project_rewards.allocated.int > 0 THEN "approved"
    ELSE IF project_rewards.allocated.int + project_rewards.matched.int > 0
    THEN "funded"
    ELSE "pending"

\* Status whose second test lets a zero allocation through
Status_ApprovedAtZero(project_rewards) ==
    IF project_rewards = None THEN "pending"
    ELSE IF project_rewards.allocated.int + project_rewards.matched.int > 0
    THEN "funded"
    ELSE IF project_rewards.allocated.int >= 0 THEN "approved"
    ELSE "pending"

\* the application status
Status(project_rewards) ==
    IF project_rewards = None THEN "pending"
    ELSE IF project_rewards.allocated.int + project_rewards.matched.int > 0
    THEN "funded"
    ELSE IF project_rewards.allocated.int > 0 THEN "approved"
    ELSE "pending"

\* Payouts without the `project_rewards and` of its condition
Payouts_IgnoresReward(project_rewards, merkle_data, project_address, epoch) ==
    IF Truthy(merkle_data)
       /\ \E i \in 1..Len(merkle_data.items) :
             merkle_data.items[i].address = project_address
    THEN LET i == CHOOSE j \in 1..Len(merkle_data.items) :
                     /\ merkle_data.items[j].address = project_address
                     /\ \A h \in 1..(j - 1) :
                           merkle_data.items[h].address # project_address
         IN  <<[type |-> "OnchainTransaction",
                amount |-> merkle_data.items[i].amount,
                merkleRoot |-> merkle_data.root,
                recipient |-> project_address,
                proof |-> [epoch |-> epoch, address |-> project_address]]>>
    ELSE <<>>

\* Payouts without the `break` of its loop: one entry per matching leaf
Payouts_NoBreak(project_rewards, merkle_data, project_address, epoch) ==
    IF project_rewards # None /\ Truthy(merkle_data)
    THEN LET matching == SelectSeq(merkle_data.items,
                                   LAMBDA leaf : leaf.address = project_address)
         IN  [i \in 1..Len(matching) |->
                [type |-> "OnchainTransaction",
                 amount |-> matching[i].amount,
                 merkleRoot |-> merkle_data.root,
                 recipient |-> project_address,
                 proof |-> [epoch |-> epoch, address |-> project_address]]]
    ELSE <<>>

\* the payouts of a project: the first leaf with its address
Payouts(project_rewards, merkle_data, project_address, epoch) ==
    IF project_rewards # None /\ Truthy(merkle_data)
       /\ \E i \in 1..Len(merkle_data.items) :
             merkle_data.items[i].address = project_address
    THEN LET i == CHOOSE j \in 1..Len(merkle_data.items) :
                     /\ merkle_data.items[j].address = project_address
                     /\ \A h \in 1..(j - 1) :
                           merkle_data.items[h].address # project_address
         IN  <<[type |-> "OnchainTransaction",
                amount |-> merkle_data.items[i].amount,
                merkleRoot |-> merkle_data.root,
                recipient |-> project_address,
                proof |-> [epoch |-> epoch, address |-> project_address]]>>
    ELSE <<>>

\* Application that numbers every application 1, as it numbers the project
Application_FixedProposalId(app_counter, epoch, data, status, payouts, usd) ==
    [type |-> "GrantApplication",
     id |-> [caip |-> _generate_caip10_address(ZeroAddress), proposalId |-> 1],
     grantPoolId |-> [caip |-> _generate_caip10_address(ZeroAddress), contractId |-> epoch],
     projectId |-> [caip |-> _generate_caip10_address(data.project), proposalId |-> 1],
     fundsAsked |-> <<[amount |-> Str(0), denomination |-> "ETH"]>>,
     fundsApproved |-> <<[amount |-> Str(data.totalAllocated), denomination |-> "ETH",
                          type |-> "none"]>>,
     fundsApprovedInUSD |-> usd,
     status |-> status,
     payouts |-> payouts]

\* the application dict as first built, fundsApprovedInUSD from the first lookup
Application(app_counter, epoch, data, status, payouts, usd) ==
    [type |-> "GrantApplication",
     id |-> [caip |-> _generate_caip10_address(ZeroAddress), proposalId |-> app_counter],
     grantPoolId |-> [caip |-> _generate_caip10_address(ZeroAddress), contractId |-> epoch],
     projectId |-> [caip |-> _generate_caip10_address(data.project), proposalId |-> 1],
     fundsAsked |-> <<[amount |-> Str(0), denomination |-> "ETH"]>>,
     fundsApproved |-> <<[amount |-> Str(data.totalAllocated), denomination |-> "ETH",
                          type |-> "none"]>>,
     fundsApprovedInUSD |-> usd,
     status |-> status,
     payouts |-> payouts]

\* the entry appended to fundsApproved when the project has a reward record
MatchedEntry(matched_amount) ==
    [amount |-> matched_amount, denomination |-> "ETH", type |-> "matched_funding"]

\* HasRewardRecord that also asks for a non-zero matched amount
HasRewardRecord_NonZeroMatched(project_rewards) ==
    project_rewards # None /\ project_rewards.matched.int # 0

\* `if project_rewards:` of the optional fields: a reward record was found
HasRewardRecord(project_rewards) == project_rewards # None

\* total_amount with the matched amount left out
TotalAmount_AllocatedOnly(data, project_rewards) == Str(data.totalAllocated)

\* total_amount = str(data["totalAllocated"] + int(matched_amount))
TotalAmount(data, project_rewards) ==
    Str(data.totalAllocated + project_rewards.matched.int)

\* `if matched_usd:` the USD figure is recomputed from total_amount
RecomputesUsd(matched_usd) == matched_usd # None

\* the locals of generate_applications; rewards_response and merkle_response
\* are history: the response that ended the rewards and the merkle fetch
GaIdle ==
    [pc |-> "idle", epoch |-> 0, allocations_data |-> None, rewards_data |-> None,
     merkle_data |-> None, epoch_concluded |-> TRUE, epoch_status |-> "completed",
     project_allocations |-> <<>>, app_counter |-> 1, applications |-> <<>>,
     application |-> None, project_rewards |-> None, result |-> None,
     rewards_response |-> "none", merkle_response |-> "none"]

\* ---------------------------------------------------- generate_applications
\* generate_applications(epoch) is entered: the allocations are requested
GA_Enter(epoch) ==
    /\ ga' = [GaIdle EXCEPT !.pc = "allocations", !.epoch = epoch]
    /\ req' = make_request_call(get_allocations_for_epoch(epoch))

\* allocations_data is back: the rewards are requested
GA_GotAllocations ==
    /\ ga.pc = "allocations"
    /\ req.pc = "returned"
    /\ ga' = [ga EXCEPT !.pc = "rewards", !.allocations_data = req.result]
    /\ req' = make_request_call(get_project_rewards(ga.epoch))
    /\ UNCHANGED <<config, nz, rl, eth_usd_rates, hist_requests, lookups,
                   chain_info, mn, written>>

\* rewards_data is back: the merkle tree is requested
GA_GotRewards ==
    /\ ga.pc = "rewards"
    /\ req.pc = "returned"
    /\ ga' = [ga EXCEPT !.pc = "merkle", !.rewards_data = req.result,
                         !.rewards_response = req.last]
    /\ req' = make_request_call(get_merkle_tree(ga.epoch))
    /\ UNCHANGED <<config, nz, rl, eth_usd_rates, hist_requests, lookups,
                   chain_info, mn, written>>

\* merkle_data is back: the epoch status is decided
GA_GotMerkle ==
    /\ ga.pc = "merkle"
    /\ req.pc = "returned"
    /\ LET epoch_status == EpochStatus(ga.allocations_data, ga.rewards_data, req.result)
       IN  ga' = [ga EXCEPT !.pc = "resolved",
                            !.merkle_data = req.result,
                            !.merkle_response = req.last,
                            !.epoch_status = epoch_status,
                            !.epoch_concluded = ~ReturnsEarly(epoch_status)]
    /\ req' = ReqIdle
    /\ UNCHANGED <<config, nz, rl, eth_usd_rates, hist_requests, lookups,
                   chain_info, mn, written>>

\* the early return for an epoch that is not concluded
GA_Placeholder ==
    /\ ga.pc = "resolved"
    /\ ReturnsEarly(ga.epoch_status)
    /\ ga' = [ga EXCEPT !.pc = "returned",
                      !.result = PlaceholderResult(ga.epoch, ga.epoch_status,
                                    ga.allocations_data, ga.rewards_data,
                                    ga.merkle_data)]
    /\ UNCHANGED <<config, nz, req, rl, eth_usd_rates, hist_requests, lookups,
                   chain_info, mn, written>>

\* the allocations are grouped by project; int(amount) may raise
GA_Group ==
    /\ ga.pc = "resolved"
    /\ ~ReturnsEarly(ga.epoch_status)
    /\ ga' = IF GroupingRaises(ga.allocations_data.items)
             THEN [ga EXCEPT !.pc = "raised"]
             ELSE [ga EXCEPT !.pc = "app", !.app_counter = 1,
                             !.project_allocations =
                                GroupAllocations(ga.allocations_data.items, <<>>)]
    /\ UNCHANGED <<config, nz, req, rl, eth_usd_rates, hist_requests, lookups, chain_info, mn, written>>

\* the next project: its reward record, status and payouts, then the first
\* _wei_to_usd_str of the application dict
GA_AppBegin ==
    /\ ga.pc = "app"
    /\ ga.app_counter <= Len(ga.project_allocations)
    /\ LET data == ga.project_allocations[ga.app_counter]
           project_rewards == FindReward(ga.rewards_data, data.project)
       IN  IF RewardRaises(project_rewards)
           THEN /\ ga' = [ga EXCEPT !.pc = "raised"]
                /\ UNCHANGED <<rl, lookups>>
           ELSE /\ ga' = [ga EXCEPT
                            !.pc = "usd_total",
                            !.project_rewards = project_rewards,
                            !.application =
                               Application(ga.app_counter, ga.epoch, data,
                                  Status(project_rewards),
                                  Payouts(project_rewards, ga.merkle_data,
                                          data.project, ga.epoch),
                                  None)]
                /\ rl' = rate_call(ga.epoch)
                /\ lookups' = [lookups EXCEPT ![ga.epoch] = @ + 1]
    /\ UNCHANGED <<config, nz, req, eth_usd_rates, hist_requests, chain_info, mn, written>>

\* applications.append(application); app_counter += 1
AppendApplication(g, application) ==
    [g EXCEPT !.pc = "app", !.applications = Append(@, application),
              !.application = None, !.project_rewards = None,
              !.app_counter = @ + 1]

\* fundsApprovedInUSD of the total allocated; with a reward record the matched
\* entry is appended and the matched amount converted
GA_UsdTotal ==
    /\ ga.pc = "usd_total"
    /\ rl.pc = "returned"
    /\ LET data == ga.project_allocations[ga.app_counter]
           usd == _wei_to_usd_str(Str(data.totalAllocated), rl.rate)
           application == [ga.application EXCEPT !.fundsApprovedInUSD = usd]
       IN  IF HasRewardRecord(ga.project_rewards)
           THEN /\ ga' = [ga EXCEPT
                            !.pc = "usd_matched",
                            !.application =
                               [application EXCEPT !.fundsApproved =
                                   Append(@, MatchedEntry(ga.project_rewards.matched))]]
                /\ rl' = rate_call(ga.epoch)
                /\ lookups' = [lookups EXCEPT ![ga.epoch] = @ + 1]
           ELSE /\ ga' = AppendApplication(ga, application)
                /\ rl' = RlIdle
                /\ UNCHANGED lookups
    /\ UNCHANGED <<config, nz, req, eth_usd_rates, hist_requests, chain_info, mn, written>>

\* matched_usd; `if matched_usd:` the combined amount is converted
GA_UsdMatched ==
    /\ ga.pc = "usd_matched"
    /\ rl.pc = "returned"
    /\ LET matched_usd == _wei_to_usd_str(ga.project_rewards.matched, rl.rate)
       IN  IF RecomputesUsd(matched_usd)
           THEN /\ ga' = [ga EXCEPT !.pc = "usd_combined"]
                /\ rl' = rate_call(ga.epoch)
                /\ lookups' = [lookups EXCEPT ![ga.epoch] = @ + 1]
           ELSE /\ ga' = AppendApplication(ga, ga.application)
                /\ rl' = RlIdle
                /\ UNCHANGED lookups
    /\ UNCHANGED <<config, nz, req, eth_usd_rates, hist_requests, chain_info, mn, written>>

\* fundsApprovedInUSD = _wei_to_usd_str(total_amount, epoch)
GA_UsdCombined ==
    /\ ga.pc = "usd_combined"
    /\ rl.pc = "returned"
    /\ LET data == ga.project_allocations[ga.app_counter]
           total_amount == TotalAmount(data, ga.project_rewards)
           usd == _wei_to_usd_str(total_amount, rl.rate)
       IN  ga' = AppendApplication(ga, [ga.application EXCEPT !.fundsApprovedInUSD = usd])
    /\ rl' = RlIdle
    /\ UNCHANGED <<config, nz, req, eth_usd_rates, hist_requests, lookups,
                   chain_info, mn, written>>

\* every project is done: the result and its metadata
GA_Finish ==
    /\ ga.pc = "app"
    /\ ga.app_counter > Len(ga.project_allocations)
    /\ ga' = [ga EXCEPT !.pc = "returned",
                      !.result = FullResult(ga.epoch, ga.epoch_status,
                                    ga.epoch_concluded, ga.applications,
                                    ga.rewards_data, ga.merkle_data)]
    /\ UNCHANGED <<config, nz, req, rl, eth_usd_rates, hist_requests, lookups,
                   chain_info, mn, written>>

\* the converter is asked for the applications of some epoch
AppsDriver ==
    /\ ga.pc = "idle"
    /\ \E epoch \in Epochs : GA_Enter(epoch)
    /\ UNCHANGED <<config, nz, rl, eth_usd_rates, hist_requests, lookups,
                   chain_info, mn, written>>

GA_Steps ==
    \/ GA_GotAllocations
    \/ GA_GotRewards
    \/ GA_GotMerkle
    \/ GA_Placeholder
    \/ GA_Group
    \/ GA_AppBegin
    \/ GA_UsdTotal
    \/ GA_UsdMatched
    \/ GA_UsdCombined
    \/ GA_Finish

\* --------------------------------------------------------------------- main
\* the epoch arguments of parse_arguments: --epoch n, --epochs list (or a list
\* that is not comma-separated integers), --current / --latest, or none
ArgEpochs == 0..(MaxEpoch + 1)

Arguments ==
    {[mode |-> "all", epoch |-> 0, epochs |-> {}],
     [mode |-> "current", epoch |-> 0, epochs |-> {}],
     [mode |-> "epochs_invalid", epoch |-> 0, epochs |-> {}]}
      \cup {[mode |-> "epoch", epoch |-> n, epochs |-> {}] : n \in ArgEpochs}
      \cup {[mode |-> "epochs", epoch |-> 0, epochs |-> S] : S \in SUBSET ArgEpochs \ {{}}}

\* sorted(set(epochs))
RECURSIVE Sorted(_)
Sorted(S) ==
    IF S = {} THEN <<>>
    ELSE LET least == CHOOSE x \in S : \A y \in S : x <= y
         IN  <<least>> \o Sorted(S \ {least})

\* determine_epochs_to_process, for arguments it does not raise on
determine_epochs_to_process(args, current_epoch) ==
    IF args.mode = "epoch" THEN <<args.epoch>>
    ELSE IF args.mode = "epochs" THEN Sorted(args.epochs)
    ELSE IF args.mode = "current" THEN <<current_epoch>>
    ELSE Sorted(1..current_epoch)

\* determine_epochs_to_process raises ValueError
ArgumentsRaise(args) == args.mode = "epochs_invalid"

\* InvalidEpoch without the upper limit
InvalidEpoch_BelowOnly(e, current_epoch) == e < 1

\* `e < 1 or e > current_epoch`
InvalidEpoch(e, current_epoch) == e < 1 \/ e > current_epoch

\* epochs_to_process without the invalid epochs
RECURSIVE ValidEpochs(_, _)
ValidEpochs(epochs, current_epoch) ==
    IF epochs = <<>> THEN <<>>
    ELSE IF InvalidEpoch(Head(epochs), current_epoch)
    THEN ValidEpochs(Tail(epochs), current_epoch)
    ELSE <<Head(epochs)>> \o ValidEpochs(Tail(epochs), current_epoch)

\* get_current_epoch: `data.get("currentEpoch") if data else None`
CurrentEpochOf(data) ==
    IF Truthy(data) /\ data.haskey THEN data.value ELSE 0 - 1

\* NoCurrentEpoch without the test: main goes on with whatever it got
NoCurrentEpoch_Never(data) == FALSE

\* `if current_epoch is None`
NoCurrentEpoch(data) == ~(Truthy(data) /\ data.haskey)

MnIdle ==
    [pc |-> "idle", args |-> [mode |-> "all", epoch |-> 0, epochs |-> {}],
     current_epoch |-> 0, epochs_to_process |-> <<>>, i |-> 1,
     epoch_info |-> None, grant_pools |-> <<>>, pool_fetched |-> <<>>]

File(name) == [name |-> name, epoch |-> 0, doc |-> None]

\* ApplicationsFile whose file name lacks the epoch, so that every epoch
\* writes the same file
ApplicationsFile_NoEpoch(epoch, result) ==
    [name |-> "applications_epoch", epoch |-> 0, doc |-> result]

\* applications_epoch_<epoch>.json: the pool entry of the result
ApplicationsFile(epoch, result) ==
    [name |-> "applications_epoch", epoch |-> epoch, doc |-> result]

\* grant_pools.json
GrantPoolsFile(grant_pools) ==
    [name |-> "grant_pools", epoch |-> 0,
     doc |-> [grantPools |-> grant_pools, total_grant_pools |-> Len(grant_pools)]]

\* generation_summary.json
SummaryFile(epochs_to_process) ==
    [name |-> "generation_summary", epoch |-> 0,
     doc |-> [epochs_processed |-> epochs_to_process,
              applications_files |-> epochs_to_process]]

\* one element of grant_pools
GrantPool(epoch) ==
    [id |-> [caip |-> _generate_caip10_address(ZeroAddress), contractId |-> epoch],
     epoch |-> epoch]

\* main starts: api_client.get_current_epoch()
M_Start ==
    /\ mn.pc = "start"
    /\ mn' = [mn EXCEPT !.pc = "current"]
    /\ req' = make_request_call(get_current_epoch)
    /\ UNCHANGED <<config, nz, rl, eth_usd_rates, hist_requests, lookups, ga,
                   chain_info, written>>

\* the main of lines 829-900, the definition the name main is bound to once
\* the module is loaded:
\* the current epoch is back; the epochs to process are all epochs from 1 to
\* the current one, whatever the command line says; generate_grants_system
\* loads the system information
M_GotCurrent ==
    /\ mn.pc = "current"
    /\ req.pc = "returned"
    /\ IF NoCurrentEpoch(req.result)
       THEN /\ mn' = [mn EXCEPT !.pc = "no_current_epoch"]
            /\ req' = ReqIdle
       ELSE LET current_epoch == CurrentEpochOf(req.result) IN
            /\ mn' = [mn EXCEPT !.pc = "chain",
                                !.current_epoch = current_epoch,
                                !.epochs_to_process = Sorted(1..current_epoch)]
            /\ req' = make_request_call(get_chain_info)
    /\ UNCHANGED <<config, nz, rl, eth_usd_rates, hist_requests, lookups, ga,
                   chain_info, written>>

\* the argument-driven main of lines 1-99, which the later definition
\* replaces: the current epoch is back; the epochs to process are determined
\* and validated, then generate_grants_system loads the system information
MA_GotCurrent ==
    /\ mn.pc = "current"
    /\ req.pc = "returned"
    /\ IF NoCurrentEpoch(req.result)
       THEN /\ mn' = [mn EXCEPT !.pc = "no_current_epoch"]
            /\ req' = ReqIdle
       ELSE IF ArgumentsRaise(mn.args)
       THEN /\ mn' = [mn EXCEPT !.pc = "failed",
                                !.current_epoch = CurrentEpochOf(req.result)]
            /\ req' = ReqIdle
       ELSE LET current_epoch == CurrentEpochOf(req.result)
                epochs == ValidEpochs(
                             determine_epochs_to_process(mn.args, current_epoch),
                             current_epoch)
            IN  IF epochs = <<>>
                THEN /\ mn' = [mn EXCEPT !.pc = "no_valid_epochs",
                                         !.current_epoch = current_epoch]
                     /\ req' = ReqIdle
                ELSE /\ mn' = [mn EXCEPT !.pc = "chain",
                                         !.current_epoch = current_epoch,
                                         !.epochs_to_process = epochs]
                     /\ req' = make_request_call(get_chain_info)
    /\ UNCHANGED <<config, nz, rl, eth_usd_rates, hist_requests, lookups, ga,
                   chain_info, written>>

\* _load_system_info: self.chain_info
M_GotChain ==
    /\ mn.pc = "chain"
    /\ req.pc = "returned"
    /\ chain_info' = req.result
    /\ mn' = [mn EXCEPT !.pc = "version"]
    /\ req' = make_request_call(get_version_info)
    /\ UNCHANGED <<config, nz, rl, eth_usd_rates, hist_requests, lookups, ga, written>>

\* _load_system_info: self.version_info is set; the next line calls
\* self.api.get_indexed_epoch(), which OctantAPIClient does not define: the
\* AttributeError leaves generate_grants_system and main's handler logs it and
\* raises it again, before any file is written
M_GotVersion ==
    /\ mn.pc = "version"
    /\ req.pc = "returned"
    /\ mn' = [mn EXCEPT !.pc = "failed"]
    /\ req' = ReqIdle
    /\ UNCHANGED <<config, nz, rl, eth_usd_rates, hist_requests, lookups, ga,
                   chain_info, written>>

\* the same step of a client that has get_indexed_epoch, as one more fetch
MI_GotVersion ==
    /\ mn.pc = "version"
    /\ req.pc = "returned"
    /\ mn' = [mn EXCEPT !.pc = "indexed"]
    /\ req' = make_request_call(get_indexed_epoch)
    /\ UNCHANGED <<config, nz, rl, eth_usd_rates, hist_requests, lookups, ga,
                   chain_info, written>>

\* with get_indexed_epoch: self.indexed_epoch_info is set; grants_system.json
\* is written and generate_grant_pools starts with the first epoch
MI_GotIndexed ==
    /\ mn.pc = "indexed"
    /\ req.pc = "returned"
    /\ written' = Append(written, File("grants_system"))
    /\ mn' = [mn EXCEPT !.pc = "pool_info", !.i = 1, !.grant_pools = <<>>]
    /\ req' = make_request_call(get_epoch_info(mn.epochs_to_process[1]))
    /\ UNCHANGED <<config, nz, rl, eth_usd_rates, hist_requests, lookups, ga, chain_info>>

\* generate_grant_pools: epoch_info is back
M_PoolInfo ==
    /\ mn.pc = "pool_info"
    /\ req.pc = "returned"
    /\ mn' = [mn EXCEPT !.pc = "pool_status", !.epoch_info = req.result]
    /\ req' = make_request_call(get_epoch_status(mn.epochs_to_process[mn.i]))
    /\ UNCHANGED <<config, nz, rl, eth_usd_rates, hist_requests, lookups, ga,
                   chain_info, written>>

\* PoolSkipped that looks at epoch_info only
PoolSkipped_InfoOnly(epoch_info, epoch_status) == ~Truthy(epoch_info)

\* `if not epoch_info or not epoch_status: continue`
PoolSkipped(epoch_info, epoch_status) == ~Truthy(epoch_info) \/ ~Truthy(epoch_status)

\* generate_grant_pools: epoch_status is back; the pool is appended or the
\* epoch skipped; after the last epoch grant_pools.json is written and
\* generate_projects starts. pool_fetched keeps, per epoch, whether both
\* fetches brought a non-empty document.
M_PoolStatus ==
    /\ mn.pc = "pool_status"
    /\ req.pc = "returned"
    /\ LET epoch == mn.epochs_to_process[mn.i]
           grant_pools == IF PoolSkipped(mn.epoch_info, req.result)
                          THEN mn.grant_pools
                          ELSE Append(mn.grant_pools, GrantPool(epoch))
           fetched == Append(mn.pool_fetched,
                             Truthy(mn.epoch_info) /\ Truthy(req.result))
       IN  IF mn.i < Len(mn.epochs_to_process)
           THEN /\ mn' = [mn EXCEPT !.pc = "pool_info", !.i = @ + 1,
                                    !.epoch_info = None,
                                    !.grant_pools = grant_pools,
                                    !.pool_fetched = fetched]
                /\ req' = make_request_call(
                             get_epoch_info(mn.epochs_to_process[mn.i + 1]))
                /\ UNCHANGED written
           ELSE /\ mn' = [mn EXCEPT !.pc = "projects", !.i = 1,
                                    !.epoch_info = None, !.grant_pools = <<>>,
                                    !.pool_fetched = fetched]
                /\ written' = Append(written, GrantPoolsFile(grant_pools))
                /\ req' = make_request_call(
                             get_projects_for_epoch(mn.epochs_to_process[1]))
    /\ UNCHANGED <<config, nz, rl, eth_usd_rates, hist_requests, lookups, ga, chain_info>>

\* generate_projects moves to the next epoch, or projects.json is written and
\* the applications of the first epoch are generated
ProjectsNext ==
    IF mn.i < Len(mn.epochs_to_process)
    THEN /\ mn' = [mn EXCEPT !.pc = "projects", !.i = @ + 1]
         /\ req' = make_request_call(
                      get_projects_for_epoch(mn.epochs_to_process[mn.i + 1]))
         /\ UNCHANGED <<written, ga>>
    ELSE /\ mn' = [mn EXCEPT !.pc = "applications", !.i = 1]
         /\ written' = Append(written, File("projects"))
         /\ GA_Enter(mn.epochs_to_process[1])

\* generate_projects: projects_data is back; `if not projects_data: continue`
M_ProjectsData ==
    /\ mn.pc = "projects"
    /\ req.pc = "returned"
    /\ IF Truthy(req.result)
       THEN /\ mn' = [mn EXCEPT !.pc = "details"]
            /\ req' = make_request_call(
                         get_project_details(mn.epochs_to_process[mn.i]))
            /\ UNCHANGED <<written, ga>>
       ELSE ProjectsNext
    /\ UNCHANGED <<config, nz, rl, eth_usd_rates, hist_requests, lookups, chain_info>>

\* generate_projects: project_details is back
M_ProjectDetails ==
    /\ mn.pc = "details"
    /\ req.pc = "returned"
    /\ ProjectsNext
    /\ UNCHANGED <<config, nz, rl, eth_usd_rates, hist_requests, lookups, chain_info>>

\* generate_applications returned: applications_epoch_<epoch>.json is written;
\* the next epoch follows, or generation_summary.json is written
M_ApplicationsReturned ==
    /\ mn.pc = "applications"
    /\ ga.pc = "returned"
    /\ LET file == ApplicationsFile(mn.epochs_to_process[mn.i], ga.result) IN
       IF mn.i < Len(mn.epochs_to_process)
       THEN /\ written' = Append(written, file)
            /\ mn' = [mn EXCEPT !.i = @ + 1]
            /\ GA_Enter(mn.epochs_to_process[mn.i + 1])
       ELSE /\ written' = Append(Append(written, file),
                                  SummaryFile(mn.epochs_to_process))
            /\ mn' = [mn EXCEPT !.pc = "done"]
            /\ ga' = GaIdle
            /\ req' = ReqIdle
    /\ UNCHANGED <<config, nz, rl, eth_usd_rates, hist_requests, lookups, chain_info>>

\* the argument-driven main: generate_applications returned and
\* applications_epoch_<epoch>.json is written; the next epoch follows, or the
\* summary's get_indexed_epoch
MA_ApplicationsReturned ==
    /\ mn.pc = "applications"
    /\ ga.pc = "returned"
    /\ written' = Append(written,
                     ApplicationsFile(mn.epochs_to_process[mn.i], ga.result))
    /\ IF mn.i < Len(mn.epochs_to_process)
       THEN /\ mn' = [mn EXCEPT !.i = @ + 1]
            /\ GA_Enter(mn.epochs_to_process[mn.i + 1])
       ELSE /\ mn' = [mn EXCEPT !.pc = "summary"]
            /\ ga' = GaIdle
            /\ req' = make_request_call(get_indexed_epoch)
    /\ UNCHANGED <<config, nz, rl, eth_usd_rates, hist_requests, lookups, chain_info>>

\* generate_applications raised: `except Exception as e: ... raise`
M_ApplicationsRaised ==
    /\ mn.pc = "applications"
    /\ ga.pc = "raised"
    /\ mn' = [mn EXCEPT !.pc = "failed"]
    /\ UNCHANGED <<config, nz, req, rl, eth_usd_rates, hist_requests, lookups, ga,
                   chain_info, written>>

\* the argument-driven main: generation_summary.json is written
MA_Summary ==
    /\ mn.pc = "summary"
    /\ req.pc = "returned"
    /\ written' = Append(written, SummaryFile(mn.epochs_to_process))
    /\ mn' = [mn EXCEPT !.pc = "done"]
    /\ req' = ReqIdle
    /\ UNCHANGED <<config, nz, rl, eth_usd_rates, hist_requests, lookups, ga, chain_info>>

\* the file is run as a script: line 103 calls the main of line 1 while
\* parse_arguments and the imports are still to come, so line 4 raises
\* NameError outside the try block and nothing is requested or written
MA_Script ==
    /\ mn.pc = "script"
    /\ mn' = [mn EXCEPT !.pc = "failed"]
    /\ UNCHANGED <<config, nz, req, rl, eth_usd_rates, hist_requests, lookups, ga,
                   chain_info, written>>

\* the steps of the main of lines 829-900 as the source stands
M_Steps ==
    \/ M_Start
    \/ M_GotCurrent
    \/ M_GotChain
    \/ M_GotVersion

\* the steps of the argument-driven main as the source stands
MA_Steps ==
    \/ MA_Script
    \/ M_Start
    \/ MA_GotCurrent
    \/ M_GotChain
    \/ M_GotVersion

\* the steps of the main of lines 829-900 over a client with get_indexed_epoch
MI_Steps ==
    \/ M_Start
    \/ M_GotCurrent
    \/ M_GotChain
    \/ MI_GotVersion
    \/ MI_GotIndexed
    \/ M_PoolInfo
    \/ M_PoolStatus
    \/ M_ProjectsData
    \/ M_ProjectDetails
    \/ M_ApplicationsReturned
    \/ M_ApplicationsRaised

\* the steps of the argument-driven main over a client with get_indexed_epoch
MAI_Steps ==
    \/ MA_Script
    \/ M_Start
    \/ MA_GotCurrent
    \/ M_GotChain
    \/ MI_GotVersion
    \/ MI_GotIndexed
    \/ M_PoolInfo
    \/ M_PoolStatus
    \/ M_ProjectsData
    \/ M_ProjectDetails
    \/ MA_ApplicationsReturned
    \/ M_ApplicationsRaised
    \/ MA_Summary

\* ---------------------------------------------------- address normalizers
\* the empty string, as the value of a CAIP-10 text
EmptyCaip == [namespace |-> "", chain |-> "", address |-> ""]

\* GivethDaoip5Transformer.transform_to_caip10(address, network)
transform_to_caip10(address, network) ==
    IF address = "" THEN EmptyCaip
    ELSE [namespace |-> "eip155",
          chain |-> IF network # "" THEN network ELSE "1",
          address |-> address]

\* the addresses and networks a normalizer is called with
Addresses == Projects \cup {ZeroAddress, ""}

Networks == {"", "1", "10", "137"}

\* the chain metadata a converter holds: not loaded, {}, without chainId, or
\* with a chainId
ChainInfos == {None, EmptyDoc, OtherDoc, ValueDoc(1), ValueDoc(10), ValueDoc(11155111)}

NzIdle == [pc |-> "idle", kind |-> "none", address |-> "", network |-> "", result |-> None]

\* DAOIP5Converter._generate_caip10_address is called
NZ_Octant ==
    /\ nz.pc = "idle"
    /\ \E address \in Addresses :
          nz' = [pc |-> "returned", kind |-> "octant", address |-> address,
                 network |-> "", result |-> _generate_caip10_address(address)]
    /\ UNCHANGED <<config, req, rl, eth_usd_rates, hist_requests, lookups,
                   ga, chain_info, mn, written>>

\* GivethDaoip5Transformer.transform_to_caip10 is called
NZ_Giveth ==
    /\ nz.pc = "idle"
    /\ \E address \in Addresses, network \in Networks :
          nz' = [pc |-> "returned", kind |-> "giveth", address |-> address,
                 network |-> network, result |-> transform_to_caip10(address, network)]
    /\ UNCHANGED <<config, req, rl, eth_usd_rates, hist_requests, lookups,
                   ga, chain_info, mn, written>>

\* the caller has taken the text
NZ_Taken ==
    /\ nz.pc = "returned"
    /\ nz' = NzIdle
    /\ UNCHANGED <<config, req, rl, eth_usd_rates, hist_requests, lookups,
                   ga, chain_info, mn, written>>

InitCommon ==
    /\ nz = NzIdle
    /\ req = ReqIdle
    /\ rl = RlIdle
    /\ eth_usd_rates = [e \in Epochs |-> Missing]
    /\ hist_requests = [e \in Epochs |-> 0]
    /\ lookups = [e \in Epochs |-> 0]
    /\ ga = GaIdle
    /\ chain_info = None
    /\ mn = MnIdle
    /\ written = <<>>

\* the base delays a configuration carries: the default and another one
RetryDelays == {DefaultRetryDelay, 3}

\* the client is built with any retry cap (args.retries) and base delay
InitFetch ==
    /\ config \in [max_retries : 0..MaxRetriesBound, retry_delay : RetryDelays]
    /\ InitCommon

NextFetch == FetchDriver \/ MR_AttemptFew

SpecFetch == InitFetch /\ [][NextFetch]_vars

InitDefault ==
    /\ config = [max_retries |-> DefaultMaxRetries, retry_delay |-> DefaultRetryDelay]
    /\ InitCommon

NextRate == RateDriver \/ RL_Historical \/ RL_Current

SpecRate == InitDefault /\ [][NextRate]_vars

Next == AppsDriver \/ MR_Attempt \/ GA_Steps \/ RL_Historical \/ RL_Current

Spec == InitDefault /\ [][Next]_vars

\* a converter with any chain metadata, and a transformer, are asked for
\* CAIP-10 texts
InitNorm ==
    /\ config = [max_retries |-> DefaultMaxRetries, retry_delay |-> DefaultRetryDelay]
    /\ nz = NzIdle
    /\ req = ReqIdle
    /\ rl = RlIdle
    /\ eth_usd_rates = [e \in Epochs |-> Missing]
    /\ hist_requests = [e \in Epochs |-> 0]
    /\ lookups = [e \in Epochs |-> 0]
    /\ ga = GaIdle
    /\ chain_info \in ChainInfos
    /\ mn = MnIdle
    /\ written = <<>>

NextNorm == NZ_Octant \/ NZ_Giveth \/ NZ_Taken

SpecNorm == InitNorm /\ [][NextNorm]_vars

\* the argument-driven main is called with any epoch arguments and any
\* --retries (`max_retries=args.retries`), or the file is run as a script
InitMainArgs ==
    /\ nz = NzIdle
    /\ config \in [max_retries : 0..MaxRetriesBound, retry_delay : {DefaultRetryDelay}]
    /\ req = ReqIdle
    /\ rl = RlIdle
    /\ eth_usd_rates = [e \in Epochs |-> Missing]
    /\ hist_requests = [e \in Epochs |-> 0]
    /\ lookups = [e \in Epochs |-> 0]
    /\ ga = GaIdle
    /\ chain_info = None
    /\ mn \in {[MnIdle EXCEPT !.pc = pc, !.args = a] :
                 pc \in {"start", "script"}, a \in Arguments}
    /\ written = <<>>

NextMainArgs == MA_Steps \/ MR_AttemptFew

SpecMainArgs == InitMainArgs /\ [][NextMainArgs]_vars

NextMainArgsIndexed ==
    MAI_Steps \/ MR_AttemptFew \/ GA_Steps \/ RL_Historical \/ RL_Current

SpecMainArgsIndexed == InitMainArgs /\ [][NextMainArgsIndexed]_vars

\* command lines of the process that calls main; main reads none of them
CommandLines == {a \in Arguments : a.mode \in {"all", "epoch"}}

\* main is called
InitMain ==
    /\ nz = NzIdle
    /\ config = [max_retries |-> DefaultMaxRetries, retry_delay |-> DefaultRetryDelay]
    /\ req = ReqIdle
    /\ rl = RlIdle
    /\ eth_usd_rates = [e \in Epochs |-> Missing]
    /\ hist_requests = [e \in Epochs |-> 0]
    /\ lookups = [e \in Epochs |-> 0]
    /\ ga = GaIdle
    /\ chain_info = None
    /\ mn \in {[MnIdle EXCEPT !.pc = "start", !.args = a] : a \in CommandLines}
    /\ written = <<>>

NextMain == M_Steps \/ MR_AttemptFew

SpecMain == InitMain /\ [][NextMain]_vars

NextMainIndexed ==
    MI_Steps \/ MR_AttemptFew \/ GA_Steps \/ RL_Historical \/ RL_Current

SpecMainIndexed == InitMain /\ [][NextMainIndexed]_vars

\* ------------------------------------------------------------------ claims
\* the three presence signals of the running generate_applications call, read
\* off the fetched documents
AllocationsPresent ==
    /\ ga.allocations_data.tag = "doc"
    /\ ga.allocations_data.nonempty
    /\ ga.allocations_data.haskey
    /\ ga.allocations_data.items # <<>>

RewardsPresent == ga.rewards_data.tag = "doc" /\ ga.rewards_data.nonempty

MerklePresent == ga.merkle_data.tag = "doc" /\ ga.merkle_data.nonempty

Resolved == ga.pc \notin {"idle", "allocations", "rewards", "merkle"}

\* C1: the epoch status is a total function of the three presence signals:
\* allocations absent gives no_allocations whatever rewards and merkle are,
\* allocations present with rewards or merkle absent gives not_finalized, all
\* three present gives completed; exactly one of the three states results.
C1_EpochStatusTable ==
    Resolved =>
      /\ ga.epoch_status \in {"no_allocations", "not_finalized", "completed"}
      /\ ~AllocationsPresent => ga.epoch_status = "no_allocations"
      /\ AllocationsPresent /\ (~RewardsPresent \/ ~MerklePresent)
            => ga.epoch_status = "not_finalized"
      /\ AllocationsPresent /\ RewardsPresent /\ MerklePresent
            => ga.epoch_status = "completed"

\* absent allocations dominate present rewards and merkle data
C1_Witness ==
    /\ Resolved
    /\ ~AllocationsPresent /\ RewardsPresent /\ MerklePresent
    /\ ga.epoch_status = "no_allocations"

\* C2: whenever the epoch status is not completed, generate_applications
\* returns a placeholder: no applications are built, the result carries the
\* resolved status and the three flags equal the presence of the three signals,
\* so that _has_allocations is false exactly in status no_allocations.
C2_Placeholder ==
    Resolved /\ ga.epoch_status # "completed" =>
      /\ ga.pc \in {"resolved", "returned"}
      /\ ga.applications = <<>>
      /\ ga.pc = "returned" =>
           /\ ga.result.applications = <<>>
           /\ ga.result.epoch_status = ga.epoch_status
           /\ ga.result.has_allocations = AllocationsPresent
           /\ ga.result.has_rewards = RewardsPresent
           /\ ga.result.has_merkle_tree = MerklePresent
           /\ ga.result.has_allocations = (ga.epoch_status # "no_allocations")

\* scenario B: allocations present, rewards and merkle absent
C2_Witness ==
    /\ ga.pc = "returned"
    /\ ga.epoch_status = "not_finalized"
    /\ ga.result.has_allocations /\ ~ga.result.has_rewards
    /\ ga.result.applications = <<>>

\* C3: aggregation proceeds only from status completed: a result with
\* applications, or with status completed, has all three signals present, all
\* three flags true and _total_applications equal to the applications emitted;
\* no application is built in any other status.
C3_OnlyCompletedAggregates ==
    /\ Resolved /\ (ga.applications # <<>> \/ ga.application # None)
          => ga.epoch_status = "completed"
    /\ ga.pc = "returned"
       /\ (ga.result.applications # <<>> \/ ga.result.epoch_status = "completed")
          => /\ AllocationsPresent /\ RewardsPresent /\ MerklePresent
             /\ ga.result.has_allocations
             /\ ga.result.has_rewards
             /\ ga.result.has_merkle_tree
             /\ ga.result.kind = "full"
             /\ ga.result.total_applications = Len(ga.result.applications)

\* a completed epoch with two applications
C3_Witness ==
    /\ ga.pc = "returned"
    /\ ga.result.epoch_status = "completed"
    /\ Len(ga.result.applications) = 2

\* the applications document of epoch e has been written
ApplicationsWritten(e) ==
    \E k \in 1..Len(written) :
       written[k].name = "applications_epoch" /\ written[k].epoch = e

\* C4: periods are processed independently: an error raised while one epoch's
\* applications are generated never reaches main's failure path, and when main
\* has stopped after starting on the applications, every requested epoch other
\* than one that failed has its applications document written.
C4_PeriodsIndependent ==
    /\ ga.pc = "raised" => mn.pc # "failed"
    /\ mn.pc \in {"done", "failed"} /\ mn.epochs_to_process # <<>> =>
         \A j \in 1..Len(mn.epochs_to_process) :
            (j # mn.i \/ ga.pc # "raised")
               => ApplicationsWritten(mn.epochs_to_process[j])

\* C5: one call of _make_request issues at most max_retries requests; it
\* returns the body of the first successful attempt, nothing is requested after
\* a success, and when every attempt failed it returns None; it never raises.
C5_FetchBounded ==
    /\ req.requests <= config.max_retries
    /\ req.pc \in {"idle", "attempt", "returned"}
    /\ req.pc = "attempt" => req.last # "ok" /\ req.failures = req.requests
    /\ req.pc = "returned" =>
         /\ req.last = "ok" =>
              /\ req.result \in FewBodies(req.kind)
              /\ req.failures = req.requests - 1
         /\ req.last # "ok" => req.result = None
         /\ req.failures = config.max_retries => req.result = None

\* all three attempts of the default cap fail
C5_Witness ==
    /\ req.pc = "returned"
    /\ config.max_retries = DefaultMaxRetries
    /\ req.requests = DefaultMaxRetries
    /\ req.failures = DefaultMaxRetries
    /\ req.result = None

\* C6: a 400 or 404 ends the call at once with None, without a wait and
\* without counting as a failure, if and only if allow_404_400 is set; unset,
\* it is a failure like any other: a wait and another attempt below the cap,
\* None at the cap. Allocations are fetched without the flag, rewards and the
\* merkle tree with it.
C6_ExpectedAbsence ==
    /\ req.last \in {"http400", "http404"} =>
         IF req.allow
         THEN /\ req.pc = "returned"
              /\ req.result = None
              /\ req.failures = req.requests - 1
              /\ Len(req.sleeps) = req.requests - 1
         ELSE /\ req.failures = req.requests
              /\ req.requests < config.max_retries =>
                    req.pc = "attempt" /\ Len(req.sleeps) = req.requests
              /\ req.requests >= config.max_retries =>
                    /\ req.pc = "returned"
                    /\ req.result = None
                    /\ Len(req.sleeps) = req.requests - 1
    /\ req.kind = "allocations" => ~req.allow
    /\ req.kind \in {"rewards", "merkle"} => req.allow

\* a 400 of the rewards endpoint ends the call on the second attempt
C6_Witness ==
    /\ req.kind = "rewards"
    /\ req.last = "http400"
    /\ req.pc = "returned"
    /\ req.requests = 2
    /\ config.max_retries = DefaultMaxRetries

\* a 404 of the allocations endpoint is retried
C6_WitnessUnflagged ==
    /\ req.kind = "allocations"
    /\ req.last = "http404"
    /\ req.pc = "attempt"
    /\ req.requests = 2

\* C7: for every epoch at most one historical-rate request is issued in a
\* run, whatever the number of lookups and the outcome of the rate requests.
C7_OneHistoricalRequest == \A e \in Epochs : hist_requests[e] <= 1

\* C8: on a cache miss the historical rate is requested first, the current
\* rate only after the historical request yielded no rate; None is returned
\* exactly when both yielded no rate, and a rate that is returned has been
\* stored under the epoch.
C8_FallbackOrder ==
    /\ rl.cur # "not_asked" => rl.hist = "no_rate"
    /\ rl.pc = "current" => rl.hist = "no_rate" /\ rl.cur = "not_asked" /\ ~rl.hit
    /\ rl.pc = "historical" => rl.hist = "not_asked" /\ rl.cur = "not_asked"
    /\ rl.pc = "returned" /\ ~rl.hit =>
         /\ rl.hist # "not_asked"
         /\ rl.hist = "rate" => rl.cur = "not_asked"
         /\ rl.hist = "no_rate" => rl.cur # "not_asked"
         /\ rl.rate = None <=> (rl.hist = "no_rate" /\ rl.cur = "no_rate")
         /\ rl.rate # None =>
              /\ rl.rate.tag = "float"
              /\ rl.stored
              /\ eth_usd_rates[rl.epoch] = rl.rate

\* the historical request fails and the current rate is returned and stored
C8_Witness ==
    /\ rl.pc = "returned"
    /\ rl.hist = "no_rate"
    /\ rl.cur = "rate"
    /\ eth_usd_rates[rl.epoch] = rl.rate

\* C9: a stored rate is never overwritten or removed; a later lookup for its
\* epoch returns it at once, and no historical request follows for the epoch.
C9_WriteOnce ==
    [][\A e \in Epochs :
          eth_usd_rates[e] # Missing =>
            /\ eth_usd_rates'[e] = eth_usd_rates[e]
            /\ hist_requests'[e] = hist_requests[e]
            /\ lookups'[e] # lookups[e] =>
                 /\ rl'.pc = "returned"
                 /\ rl'.hit
                 /\ rl'.epoch = e
                 /\ rl'.rate = eth_usd_rates[e]
                 /\ rl'.hist = "not_asked" /\ rl'.cur = "not_asked"]_vars

\* a second lookup of an epoch is answered from the cache
C9_Witness ==
    /\ rl.pc = "returned"
    /\ rl.hit
    /\ lookups[rl.epoch] >= 2
    /\ hist_requests[rl.epoch] = 1

\* C10: while no rate is cached for the epoch (every rate request made for it
\* has failed), fundsApprovedInUSD of each of its applications is None, never
\* "0.00" or another figure, also for a project with matched funds.
C10_UnknownUsd ==
    Resolved /\ eth_usd_rates[ga.epoch] = Missing =>
      /\ \A i \in 1..Len(ga.applications) :
            ga.applications[i].fundsApprovedInUSD = None
      /\ ga.pc = "returned" =>
           \A i \in 1..Len(ga.result.applications) :
              ga.result.applications[i].fundsApprovedInUSD = None

\* an application with matched funds and no USD figure
C10_Witness ==
    /\ ga.pc = "returned"
    /\ eth_usd_rates[ga.epoch] = Missing
    /\ \E i \in 1..Len(ga.result.applications) :
          LET a == ga.result.applications[i] IN
          /\ Len(a.fundsApproved) = 2
          /\ a.fundsApproved[2].amount.int > 0
          /\ a.fundsApprovedInUSD = None

\* ------------------------------------------------------------- aggregation
\* generate_applications has returned the result of a concluded epoch
Aggregated == ga.pc = "returned" /\ ga.result.kind = "full"

\* the allocation list the result was aggregated from
InputAllocations == ga.allocations_data.items

\* the sum of f[i] over i in 1..n
RECURSIVE SumTo(_, _)
SumTo(f, n) == IF n = 0 THEN 0 ELSE f[n] + SumTo(f, n - 1)

\* the project address of an application (the address of its projectId)
ProjectOf(application) == application.projectId.caip.address

\* the distinct project addresses of a list of allocations, in the order of
\* their first occurrence
RECURSIVE FirstOccurrences(_)
FirstOccurrences(allocations) ==
    IF allocations = <<>> THEN <<>>
    ELSE LET before == FirstOccurrences(SubSeq(allocations, 1, Len(allocations) - 1))
             project == allocations[Len(allocations)].project
         IN  IF \E i \in 1..Len(before) : before[i] = project
             THEN before
             ELSE Append(before, project)

\* C11: conservation. In the result of a completed epoch, the first
\* fundsApproved amounts of the applications add up to the sum of the amounts
\* of all input allocation records.
C11_Conservation ==
    Aggregated =>
        SumTo([i \in 1..Len(ga.result.applications) |->
                  ga.result.applications[i].fundsApproved[1].amount.int],
              Len(ga.result.applications))
          = SumTo([i \in 1..Len(InputAllocations) |-> InputAllocations[i].amount.int],
                  Len(InputAllocations))

\* two records of one project, both with a non-zero amount, were summed
C11_Witness ==
    /\ Aggregated
    /\ Len(InputAllocations) = 2
    /\ InputAllocations[1].project = InputAllocations[2].project
    /\ InputAllocations[1].amount.int = 100
    /\ InputAllocations[2].amount.int = 50
    /\ Len(ga.result.applications) = 1
    /\ ga.result.applications[1].fundsApproved[1].amount.int = 150

\* C12: within one completed epoch the applications follow the order in which
\* their project addresses first appear in the allocation list, the k-th
\* distinct project address gets sequence number k (from 1) in its identifier,
\* and the identifiers are pairwise distinct.
C12_InsertionOrder ==
    Aggregated =>
        LET apps == ga.result.applications
            firsts == FirstOccurrences(InputAllocations)
        IN  /\ Len(apps) = Len(firsts)
            /\ \A k \in 1..Len(apps) :
                  /\ ProjectOf(apps[k]) = firsts[k]
                  /\ apps[k].id.proposalId = k
            /\ \A j, k \in 1..Len(apps) : j # k => apps[j].id # apps[k].id

\* two projects, the one that sorts last allocated first: it is application 1
C12_Witness ==
    /\ Aggregated
    /\ Len(InputAllocations) = 2
    /\ InputAllocations[1].project = "0xBB"
    /\ InputAllocations[2].project = "0xAA"
    /\ Len(ga.result.applications) = 2
    /\ ProjectOf(ga.result.applications[1]) = "0xBB"
    /\ ga.result.applications[2].id.proposalId = 2

\* the positions of the reward records that carry the address
RewardPositions(address) ==
    IF Truthy(ga.rewards_data) /\ ga.rewards_data.haskey
    THEN {i \in 1..Len(ga.rewards_data.items) : ga.rewards_data.items[i].address = address}
    ELSE {}

\* the first reward record that carries the address
FirstRewardOf(address) ==
    ga.rewards_data.items[CHOOSE i \in RewardPositions(address) :
                             \A j \in RewardPositions(address) : i <= j]

\* C13: status derivation. An application whose project address has a reward
\* record is funded when allocated + matched > 0, otherwise approved when
\* allocated > 0, otherwise pending; without a reward record it is pending.
C13_StatusDerivation ==
    Aggregated =>
        \A k \in 1..Len(ga.result.applications) :
            LET a == ga.result.applications[k]
                address == ProjectOf(a)
            IN  IF RewardPositions(address) = {} THEN a.status = "pending"
                ELSE LET reward == FirstRewardOf(address)
                     IN  IF reward.allocated.int + reward.matched.int > 0
                         THEN a.status = "funded"
                         ELSE IF reward.allocated.int > 0
                         THEN a.status = "approved"
                         ELSE a.status = "pending"

\* an application is approved: its reward has allocated > 0 and the sum is not
\* positive
C13_Witness ==
    /\ Aggregated
    /\ \E k \in 1..Len(ga.result.applications) :
          LET a == ga.result.applications[k] IN
          /\ a.status = "approved"
          /\ RewardPositions(ProjectOf(a)) # {}
          /\ FirstRewardOf(ProjectOf(a)).allocated.int > 0

\* applications of the three statuses are emitted
C13_WitnessFunded ==
    /\ Aggregated
    /\ Len(ga.result.applications) = 2
    /\ ga.result.applications[1].status = "funded"
    /\ ga.result.applications[2].status = "pending"

\* the applications whose reward record has allocated > 0 and matched = 0
AllocatedUnmatched ==
    {k \in 1..Len(ga.result.applications) :
        LET address == ProjectOf(ga.result.applications[k]) IN
        /\ RewardPositions(address) # {}
        /\ FirstRewardOf(address).allocated.int > 0
        /\ FirstRewardOf(address).matched.int = 0}

\* C14 as stated: in a completed epoch, the application of a project whose
\* reward record has allocated > 0 and matched = 0 has status approved.
C14_UnmatchedIsApproved ==
    Aggregated =>
        \A k \in AllocatedUnmatched : ga.result.applications[k].status = "approved"

\* C14 as amended: in a completed epoch, the application of a project whose
\* reward record has allocated > 0 and matched = 0 has status funded, since
\* allocated + matched > 0.
C14_UnmatchedIsFunded ==
    Aggregated =>
        \A k \in AllocatedUnmatched : ga.result.applications[k].status = "funded"

\* scenario C: two allocations to 0xAA of 1.0 and 0.5 ETH, reward allocated
\* 1.5 ETH and matched 0, one leaf for 0xAA
C14_Witness ==
    /\ Aggregated
    /\ InputAllocations =
          <<[project |-> "0xAA", donor |-> "0xD1", amount |-> Str(100)],
            [project |-> "0xAA", donor |-> "0xD1", amount |-> Str(50)]>>
    /\ ga.rewards_data.items =
          <<[address |-> "0xAA", allocated |-> Str(150), matched |-> Str(0)]>>
    /\ ga.merkle_data.items = <<[address |-> "0xAA", amount |-> Str(150)]>>
    /\ AllocatedUnmatched = {1}
    /\ ga.result.applications[1].fundsApproved[1].amount = Str(150)
    /\ ga.result.applications[1].status = "funded"

\* the positions of the merkle leaves that carry the address
LeafPositions(address) ==
    {i \in 1..Len(ga.merkle_data.items) : ga.merkle_data.items[i].address = address}

\* the first merkle leaf that carries the address
FirstLeafOf(address) ==
    ga.merkle_data.items[CHOOSE i \in LeafPositions(address) :
                            \A j \in LeafPositions(address) : i <= j]

\* C15: payout attachment. An application of a completed epoch has a payout
\* entry if and only if the merkle data has a leaf with the project's address,
\* whether or not the project has a reward record; the entry carries that
\* leaf's amount, the merkle root and the project as recipient.
C15_PayoutIffLeaf ==
    Aggregated =>
        \A k \in 1..Len(ga.result.applications) :
            LET a == ga.result.applications[k]
                address == ProjectOf(a)
            IN  /\ (a.payouts # <<>>) <=> (LeafPositions(address) # {})
                /\ a.payouts # <<>> =>
                      /\ a.payouts[1].amount = FirstLeafOf(address).amount
                      /\ a.payouts[1].merkleRoot = ga.merkle_data.root
                      /\ a.payouts[1].recipient = address

\* C15 as amended: an application of a completed epoch has a payout entry if
\* and only if its project has a reward record and the merkle data has a leaf
\* with the project's address; the entry carries the first such leaf's
\* amount, the merkle root and the project as recipient.
C15_PayoutIffRewardAndLeaf ==
    Aggregated =>
        \A k \in 1..Len(ga.result.applications) :
            LET a == ga.result.applications[k]
                address == ProjectOf(a)
            IN  /\ (a.payouts # <<>>) <=>
                      (RewardPositions(address) # {} /\ LeafPositions(address) # {})
                /\ a.payouts # <<>> =>
                      /\ a.payouts[1].amount = FirstLeafOf(address).amount
                      /\ a.payouts[1].merkleRoot = ga.merkle_data.root
                      /\ a.payouts[1].recipient = address

\* two projects with a leaf each; only the one with a reward record is paid
C15_Witness ==
    /\ Aggregated
    /\ Len(ga.result.applications) = 2
    /\ \A k \in 1..2 : LeafPositions(ProjectOf(ga.result.applications[k])) # {}
    /\ RewardPositions(ProjectOf(ga.result.applications[1])) # {}
    /\ RewardPositions(ProjectOf(ga.result.applications[2])) = {}
    /\ Len(ga.result.applications[1].payouts) = 1
    /\ ga.result.applications[1].payouts[1].merkleRoot = "0xR"
    /\ ga.result.applications[2].payouts = <<>>

\* C16: every emitted application has at most one payout entry; when several
\* merkle leaves carry the project's address, the payout references the first
\* of them in list order.
C16_FirstLeafWins ==
    Aggregated =>
        \A k \in 1..Len(ga.result.applications) :
            LET a == ga.result.applications[k]
                address == ProjectOf(a)
            IN  /\ Len(a.payouts) <= 1
                /\ (Len(a.payouts) = 1 /\ Cardinality(LeafPositions(address)) > 1) =>
                      a.payouts[1].amount = FirstLeafOf(address).amount

\* two leaves of different amounts carry the address of a paid project
C16_Witness ==
    /\ Aggregated
    /\ \E k \in 1..Len(ga.result.applications) :
          LET a == ga.result.applications[k] IN
          /\ LeafPositions(ProjectOf(a)) = {1, 2}
          /\ ga.merkle_data.items[1].amount = Str(70)
          /\ ga.merkle_data.items[2].amount = Str(150)
          /\ Len(a.payouts) = 1
          /\ a.payouts[1].amount = Str(70)

\* the sum of the amounts the allocation list gives to the address
ProjectTotal(address) ==
    SumTo([i \in 1..Len(InputAllocations) |->
              IF InputAllocations[i].project = address
              THEN InputAllocations[i].amount.int ELSE 0],
          Len(InputAllocations))

\* C17: fundsApproved has a second entry, tagged matched_funding, exactly when
\* a reward record exists for the project's address, also when the matched
\* amount is zero; without a reward record it has one entry; the first entry
\* is always the total allocated amount.
C17_MatchedEntry ==
    Aggregated =>
        \A k \in 1..Len(ga.result.applications) :
            LET a == ga.result.applications[k]
                address == ProjectOf(a)
            IN  /\ a.fundsApproved[1].amount = Str(ProjectTotal(address))
                /\ a.fundsApproved[1].type # "matched_funding"
                /\ IF RewardPositions(address) # {}
                   THEN /\ Len(a.fundsApproved) = 2
                        /\ a.fundsApproved[2].type = "matched_funding"
                        /\ a.fundsApproved[2].amount = FirstRewardOf(address).matched
                   ELSE Len(a.fundsApproved) = 1

\* a project with a reward record of matched zero next to one without any
C17_Witness ==
    /\ Aggregated
    /\ Len(ga.result.applications) = 2
    /\ RewardPositions(ProjectOf(ga.result.applications[1])) # {}
    /\ Len(ga.result.applications[1].fundsApproved) = 2
    /\ ga.result.applications[1].fundsApproved[2].amount = Str(0)
    /\ ga.result.applications[1].fundsApproved[2].type = "matched_funding"
    /\ RewardPositions(ProjectOf(ga.result.applications[2])) = {}
    /\ Len(ga.result.applications[2].fundsApproved) = 1

\* the amount fundsApprovedInUSD is due to convert for the address: total
\* allocated plus matched with a reward record, total allocated without one
CombinedAmount(address) ==
    IF RewardPositions(address) # {}
    THEN ProjectTotal(address) + FirstRewardOf(address).matched.int
    ELSE ProjectTotal(address)

\* C18: when an application is emitted and a rate has resolved for its epoch,
\* fundsApprovedInUSD is the conversion of total allocated + matched at that
\* rate if the project has a reward record, and of total allocated if it has
\* none: n units of 10^16 wei at the whole-number rate r are n * r cents. No
\* application of a result carries the conversion of another amount.
C18_CombinedUsd ==
    [][/\ Len(ga'.applications) = Len(ga.applications) + 1 =>
             LET a == ga'.applications[Len(ga'.applications)]
                 rate == eth_usd_rates'[ga.epoch]
             IN  rate # Missing =>
                    a.fundsApprovedInUSD = UsdStr(CombinedAmount(ProjectOf(a)) * rate.v)
       /\ (ga'.pc = "returned" /\ ga'.result.kind = "full") =>
             \A k \in 1..Len(ga'.result.applications) :
                LET a == ga'.result.applications[k]
                    rate == eth_usd_rates'[ga.epoch]
                IN  a.fundsApprovedInUSD # None =>
                       /\ rate # Missing
                       /\ a.fundsApprovedInUSD =
                             UsdStr(CombinedAmount(ProjectOf(a)) * rate.v)
      ]_vars

\* scenario C at the rate 2000: 1.5 ETH allocated, matched 0, "3000.00"
C18_Witness ==
    /\ Aggregated
    /\ eth_usd_rates[ga.epoch] = Float(2000)
    /\ Len(ga.result.applications) = 1
    /\ RewardPositions(ProjectOf(ga.result.applications[1])) # {}
    /\ ga.result.applications[1].fundsApproved[1].amount = Str(150)
    /\ ga.result.applications[1].fundsApproved[2].amount = Str(0)
    /\ ga.result.applications[1].fundsApprovedInUSD = UsdStr(300000)

\* 1 ETH allocated and 0.5 ETH matched at the rate 3000: "4500.00"
C18_WitnessMatched ==
    /\ Aggregated
    /\ eth_usd_rates[ga.epoch] = Float(3000)
    /\ \E k \in 1..Len(ga.result.applications) :
          LET a == ga.result.applications[k] IN
          /\ a.fundsApproved[1].amount = Str(100)
          /\ Len(a.fundsApproved) = 2
          /\ a.fundsApproved[2].amount = Str(50)
          /\ a.fundsApprovedInUSD = UsdStr(450000)

\* the project addresses that occur in the allocation list
AllocatedProjects ==
    {InputAllocations[i].project : i \in 1..Len(InputAllocations)}

\* C19: aggregation is allocation-driven. In a completed epoch the projects
\* of the emitted applications are exactly the distinct project addresses of
\* the allocation list, one application each: a group whose amounts sum to
\* zero is emitted, and a reward record or a merkle leaf for an address
\* without allocation yields no application.
C19_AllocationDriven ==
    Aggregated =>
        LET apps == ga.result.applications IN
        /\ {ProjectOf(apps[k]) : k \in 1..Len(apps)} = AllocatedProjects
        /\ Len(apps) = Cardinality(AllocatedProjects)
        /\ \A address \in Projects \ AllocatedProjects :
              \A k \in 1..Len(apps) : ProjectOf(apps[k]) # address

\* one project whose allocations sum to zero is emitted, while the reward
\* record and the merkle leaf of the other project yield nothing
C19_Witness ==
    /\ Aggregated
    /\ AllocatedProjects = {"0xAA"}
    /\ ProjectTotal("0xAA") = 0
    /\ RewardPositions("0xBB") # {}
    /\ LeafPositions("0xBB") # {}
    /\ Len(ga.result.applications) = 1
    /\ ProjectOf(ga.result.applications[1]) = "0xAA"
    /\ ga.result.applications[1].fundsApproved[1].amount = Str(0)

\* ------------------------------------------------------------------- main
\* the current-epoch fetch is back without a current epoch
CurrentEpochAbsent ==
    /\ mn.pc = "current"
    /\ req.pc = "returned"
    /\ ~(Truthy(req.result) /\ req.result.haskey)

\* C20: if the current epoch cannot be determined, main ends the run before
\* it generates anything: it stops there, and no grants-system, pools,
\* projects, applications or summary document is written, then or later.
C20_AbortsWithoutCurrentEpoch ==
    [][/\ CurrentEpochAbsent => (mn'.pc = "no_current_epoch" /\ written' = <<>>)
       /\ mn.pc = "no_current_epoch" => (mn'.pc = "no_current_epoch" /\ written' = <<>>)
      ]_vars

\* the fetch gave up after its retries and main has stopped, nothing written
C20_Witness ==
    /\ mn.pc = "no_current_epoch"
    /\ written = <<>>
    /\ ga.pc = "idle"

\* ------------------------------------------------- absent for two reasons
\* the rewards fetch, or the merkle fetch, ended without a document: by an
\* expected 400/404 or by a failure of its last attempt
RewardsFetchAbsent == ga.rewards_response \in {"http400", "http404", "http5xx", "timeout"}

MerkleFetchAbsent == ga.merkle_response \in {"http400", "http404", "http5xx", "timeout"}

\* C21: whatever the reason the rewards or the merkle fetch came back absent
\* for (expected 400/404, or retries used up), generate_applications returns
\* the outcome that the allocations alone determine: the same epoch state,
\* the same presence flags, and no application.
C21_AbsentIsAbsent ==
    (ga.pc = "returned" /\ (RewardsFetchAbsent \/ MerkleFetchAbsent)) =>
        /\ ga.result.applications = <<>>
        /\ ga.result.epoch_status =
              (IF AllocationsPresent THEN "not_finalized" ELSE "no_allocations")
        /\ ga.result.has_allocations = AllocationsPresent
        /\ RewardsFetchAbsent => ga.result.has_rewards = FALSE
        /\ MerkleFetchAbsent => ga.result.has_merkle_tree = FALSE

\* the rewards fetch used up its retries on server errors, allocations present
C21_Witness ==
    /\ ga.pc = "returned"
    /\ AllocationsPresent
    /\ ga.rewards_response = "http5xx"
    /\ ga.merkle_response = "ok"
    /\ ga.result.epoch_status = "not_finalized"
    /\ ga.result.has_rewards = FALSE

\* the same run but for the reason: the rewards fetch met an expected 404
C21_WitnessExpected ==
    /\ ga.pc = "returned"
    /\ AllocationsPresent
    /\ ga.rewards_response = "http404"
    /\ ga.merkle_response = "ok"
    /\ ga.result.epoch_status = "not_finalized"
    /\ ga.result.has_rewards = FALSE

\* ---------------------------------------------------- address normalizers
\* C22: both normalizers map the empty address to the empty string, and every
\* non-empty address to eip155:<chainId>:<address>.
C22_EmptyToEmpty ==
    nz.pc = "returned" =>
        IF nz.address = ""
        THEN nz.result.namespace = "" /\ nz.result.address = ""
        ELSE nz.result.namespace = "eip155" /\ nz.result.address = nz.address

\* the chain id the identifiers of the run are due to carry: the chainId of
\* the chain metadata when it was loaded and has one, 1 otherwise
ExpectedChain ==
    IF chain_info.tag = "doc" /\ chain_info.nonempty /\ chain_info.haskey
    THEN chain_info.value
    ELSE 1

\* the CAIP-10 texts of the identifiers in the files written so far
WrittenCaips ==
    UNION {IF written[i].name = "grant_pools"
           THEN {written[i].doc.grantPools[j].id.caip :
                    j \in 1..Len(written[i].doc.grantPools)}
           ELSE IF written[i].name = "applications_epoch"
           THEN UNION {{written[i].doc.applications[k].id.caip,
                        written[i].doc.applications[k].grantPoolId.caip,
                        written[i].doc.applications[k].projectId.caip} :
                          k \in 1..Len(written[i].doc.applications)}
           ELSE {} : i \in 1..Len(written)}

\* C23: every identifier of a run of main carries the chain id of the chain
\* metadata when it was loaded, and 1 otherwise; so all identifiers of the run
\* carry one chain id, and an address normalized twice gives one text.
C23_OneChainId ==
    /\ \A c \in WrittenCaips : c.namespace = "eip155" /\ c.chain = ExpectedChain
    /\ \A c, d \in WrittenCaips : c.address = d.address => c = d

\* a run on a test network: a pool and an application carry its chain id
C23_Witness ==
    /\ chain_info = ValueDoc(11155111)
    /\ \E i, j \in 1..Len(written) :
          /\ written[i].name = "grant_pools"
          /\ Len(written[i].doc.grantPools) > 0
          /\ written[i].doc.grantPools[1].id.caip.chain = 11155111
          /\ written[j].name = "applications_epoch"
          /\ Len(written[j].doc.applications) > 0
          /\ written[j].doc.applications[1].id.caip.chain = 11155111


\* the fetches generate_applications issues
ApplicationFetches == {"allocations", "rewards", "merkle"}

\* where an epoch stands in the epochs main processes
PositionOf(e) ==
    CHOOSE j \in 1..Len(mn.epochs_to_process) : mn.epochs_to_process[j] = e

\* the positions in `written` of the applications documents, and of the summary
ApplicationsPositions ==
    {k \in 1..Len(written) : written[k].name = "applications_epoch"}

SummaryPositions ==
    {k \in 1..Len(written) : written[k].name = "generation_summary"}

\* the epochs of the applications documents written, in the order written
RECURSIVE WrittenEpochs(_)
WrittenEpochs(k) ==
    IF k = 0 THEN <<>>
    ELSE IF written[k].name = "applications_epoch"
    THEN Append(WrittenEpochs(k - 1), written[k].epoch)
    ELSE WrittenEpochs(k - 1)

\* C24: epochs are processed one after the other: while a fetch or a rate
\* lookup for an epoch's applications is under way, the applications documents
\* written are exactly those of the epochs before it; generation_summary is
\* written after the applications document of every processed epoch and lists
\* exactly those documents, in the order of processing.
C24_Sequential ==
    /\ req.kind \in ApplicationFetches =>
          /\ req.epoch = ga.epoch
          /\ \A j \in 1..Len(mn.epochs_to_process) :
                ApplicationsWritten(mn.epochs_to_process[j])
                   <=> j < PositionOf(req.epoch)
    /\ rl.pc # "idle" =>
          /\ rl.epoch = ga.epoch
          /\ \A j \in 1..Len(mn.epochs_to_process) :
                ApplicationsWritten(mn.epochs_to_process[j])
                   <=> j < PositionOf(rl.epoch)
    /\ \A k \in SummaryPositions :
          /\ k = Len(written)
          /\ WrittenEpochs(k) = mn.epochs_to_process
          /\ written[k].doc.applications_files = WrittenEpochs(k)
          /\ written[k].doc.epochs_processed = WrittenEpochs(k)

\* the allocations of a second epoch are being fetched, the first epoch's
\* document being written
C24_Witness ==
    /\ req.kind = "allocations"
    /\ req.pc = "attempt"
    /\ PositionOf(req.epoch) = 2
    /\ ApplicationsWritten(mn.epochs_to_process[1])

\* the summary of a run over two epochs is written
C24_WitnessSummary ==
    /\ SummaryPositions # {}
    /\ Len(mn.epochs_to_process) = 2
    /\ Cardinality(ApplicationsPositions) = 2

\* 2^i by repeated doubling
RECURSIVE Doubled(_)
Doubled(i) == IF i = 0 THEN 1 ELSE 2 * Doubled(i - 1)

\* C25: the wait after the failed attempt of 0-based index i, when it is not
\* the last attempt, is retry_delay * 2^i; there is one wait per attempt that
\* was followed by another one, so none after the final attempt, after a
\* success or after an expected-absence return.
C25_ExponentialBackoff ==
    /\ \A i \in 0..(Len(req.sleeps) - 1) :
          req.sleeps[i + 1] = config.retry_delay * Doubled(i)
    /\ req.pc = "attempt" => Len(req.sleeps) = req.requests
    /\ req.pc = "returned" /\ req.requests > 0 =>
          Len(req.sleeps) = req.requests - 1
    /\ req.pc = "returned" /\ req.requests = 0 => req.sleeps = <<>>

\* a request with base delay 3 came back after three failed attempts and the
\* waits 3, 6 and 12
C25_Witness ==
    /\ req.pc = "returned"
    /\ config.retry_delay = 3
    /\ req.sleeps = <<3, 6, 12>>

\* the identifiers of the applications of the k-th document written
ApplicationIds(k) ==
    {written[k].doc.applications[a].id : a \in 1..Len(written[k].doc.applications)}

\* C26: application identifiers are unique across the whole run: within one
\* applications document no identifier occurs twice, and no two applications
\* of different epochs carry the same identifier.
C26_UniqueAcrossEpochs ==
    \A i, j \in ApplicationsPositions :
       /\ Cardinality(ApplicationIds(i)) = Len(written[i].doc.applications)
       /\ i # j => ApplicationIds(i) \cap ApplicationIds(j) = {}

\* ------------------------------------------------------- generate_grant_pools
\* the first n requested epochs for which both fetches brought a document
RECURSIVE FetchedEpochs(_)
FetchedEpochs(n) ==
    IF n = 0 THEN <<>>
    ELSE IF mn.pool_fetched[n]
    THEN Append(FetchedEpochs(n - 1), mn.epochs_to_process[n])
    ELSE FetchedEpochs(n - 1)

GrantPoolsPositions == {k \in 1..Len(written) : written[k].name = "grant_pools"}

\* C27: generate_grant_pools skips an epoch whose epoch-info or epoch-status
\* fetch brought nothing, and only that epoch: the pools built so far, and the
\* pools of the document written, are one pool per requested epoch for which
\* both fetches brought a document, in the order requested, each with the
\* suffix ?contractId=<epoch>; total_grant_pools is the number of pools and at
\* most the number of epochs requested.
C27_PoolPerFetchedEpoch ==
    /\ mn.pc \in {"pool_info", "pool_status"} =>
          /\ Len(mn.pool_fetched) = mn.i - 1
          /\ Len(mn.grant_pools) = Len(FetchedEpochs(mn.i - 1))
          /\ \A j \in 1..Len(mn.grant_pools) :
                mn.grant_pools[j].id.contractId = FetchedEpochs(mn.i - 1)[j]
    /\ \A k \in GrantPoolsPositions :
          LET grantPools == written[k].doc.grantPools
              fetched == FetchedEpochs(Len(mn.epochs_to_process))
          IN  /\ Len(mn.pool_fetched) = Len(mn.epochs_to_process)
              /\ Len(grantPools) = Len(fetched)
              /\ \A j \in 1..Len(grantPools) :
                    /\ grantPools[j].epoch = fetched[j]
                    /\ grantPools[j].id.contractId = fetched[j]
                    /\ grantPools[j].id.caip.address = ZeroAddress
              /\ written[k].doc.total_grant_pools = Len(grantPools)
              /\ written[k].doc.total_grant_pools <= Len(mn.epochs_to_process)

\* of two requested epochs the first was skipped, its status being absent, and
\* the pool of the second is in the document written
C27_Witness ==
    /\ mn.epochs_to_process = <<1, 2>>
    /\ mn.pool_fetched = <<FALSE, TRUE>>
    /\ \E k \in GrantPoolsPositions :
          /\ written[k].doc.total_grant_pools = 1
          /\ written[k].doc.grantPools[1].id.contractId = 2

\* ------------------------------------------------------- requested epochs
\* the epochs the arguments ask for
RequestedEpochs ==
    CASE mn.args.mode = "epoch" -> {mn.args.epoch}
      [] mn.args.mode = "epochs" -> mn.args.epochs
      [] mn.args.mode = "current" -> {mn.current_epoch}
      [] OTHER -> 1..mn.current_epoch

\* the fetches made for one epoch by the generators
EpochFetches ==
    {"info", "status", "projects", "details", "allocations", "rewards", "merkle"}

\* the epochs of the pools and of the applications documents written
GeneratedEpochs ==
    UNION {IF written[k].name = "grant_pools"
           THEN {written[k].doc.grantPools[j].epoch :
                    j \in 1..Len(written[k].doc.grantPools)}
           ELSE IF written[k].name = "applications_epoch"
           THEN {written[k].epoch, written[k].doc.metadata.epoch_processed}
           ELSE {} : k \in 1..Len(written)}

\* C28: the argument-driven main generates for valid epochs only: the epochs
\* it processes are the requested epochs within 1..current_epoch, every fetch
\* of a generator and every pool and applications document is for one of
\* them, and when no requested epoch is valid the run has ended with no
\* document written and no generator entered.
C28_OnlyValidEpochs ==
    /\ \A j \in 1..Len(mn.epochs_to_process) :
          /\ mn.epochs_to_process[j] \in 1..mn.current_epoch
          /\ mn.epochs_to_process[j] \in RequestedEpochs
    /\ mn.pc \notin {"script", "start", "current", "no_current_epoch", "failed",
                     "no_valid_epochs"} =>
          \A e \in RequestedEpochs \cap 1..mn.current_epoch :
             \E j \in 1..Len(mn.epochs_to_process) : mn.epochs_to_process[j] = e
    /\ req.kind \in EpochFetches =>
          /\ req.epoch \in 1..mn.current_epoch
          /\ req.epoch \in RequestedEpochs
    /\ GeneratedEpochs \subseteq RequestedEpochs \cap 1..mn.current_epoch
    /\ mn.pc = "no_valid_epochs" =>
          /\ RequestedEpochs \cap 1..mn.current_epoch = {}
          /\ written = <<>>
          /\ req.pc = "idle"
          /\ ga.pc = "idle"

\* epochs 0, 2 and 3 were requested in epoch 2: the applications of epoch 2
\* alone are written
C28_Witness ==
    /\ mn.args.mode = "epochs"
    /\ mn.args.epochs = {0, 2, 3}
    /\ mn.current_epoch = 2
    /\ mn.epochs_to_process = <<2>>
    /\ ApplicationsWritten(2)

\* epoch 3 was requested in epoch 2 and the run has ended with nothing written
C28_WitnessNone ==
    /\ mn.pc = "no_valid_epochs"
    /\ mn.args.mode = "epoch"
    /\ mn.args.epoch = 3
    /\ mn.current_epoch = 2
    /\ written = <<>>

\* ------------------------------------------------- the status 'approved'
\* C29: an application whose reward amounts are both non-negative is never
\* approved: it is funded when allocated > 0, and funded or pending in any
\* case; an approved application has a reward record with allocated > 0 and a
\* negative matched amount that cancels it exactly or more.
C29_ApprovedNeedsNegativeMatched ==
    Aggregated =>
        \A k \in 1..Len(ga.result.applications) :
            LET a == ga.result.applications[k]
                address == ProjectOf(a)
            IN  /\ RewardPositions(address) = {} => a.status = "pending"
                /\ RewardPositions(address) # {} =>
                      LET reward == FirstRewardOf(address) IN
                      /\ reward.allocated.int >= 0 /\ reward.matched.int >= 0 =>
                            /\ a.status \in {"funded", "pending"}
                            /\ reward.allocated.int > 0 => a.status = "funded"
                      /\ a.status = "approved" =>
                            /\ reward.matched.int < 0
                            /\ reward.allocated.int > 0
                            /\ reward.matched.int + reward.allocated.int <= 0

\* both amounts of the reward record are positive and the application is funded
C29_Witness ==
    /\ Aggregated
    /\ \E k \in 1..Len(ga.result.applications) :
          LET a == ga.result.applications[k] IN
          /\ RewardPositions(ProjectOf(a)) # {}
          /\ FirstRewardOf(ProjectOf(a)).allocated.int = 150
          /\ FirstRewardOf(ProjectOf(a)).matched.int = 50
          /\ a.status = "funded"

\* a matched amount of -200 more than cancels an allocation of 150: approved
C29_WitnessApproved ==
    /\ Aggregated
    /\ \E k \in 1..Len(ga.result.applications) :
          LET a == ga.result.applications[k] IN
          /\ RewardPositions(ProjectOf(a)) # {}
          /\ FirstRewardOf(ProjectOf(a)).allocated.int = 150
          /\ FirstRewardOf(ProjectOf(a)).matched.int = 0 - 200
          /\ a.status = "approved"

\* a negative matched amount that does not cancel the allocation: funded
C29_WitnessNotCancelled ==
    /\ Aggregated
    /\ \E k \in 1..Len(ga.result.applications) :
          LET a == ga.result.applications[k] IN
          /\ RewardPositions(ProjectOf(a)) # {}
          /\ FirstRewardOf(ProjectOf(a)).allocated.int = 150
          /\ FirstRewardOf(ProjectOf(a)).matched.int = 0 - 100
          /\ a.status = "funded"
====
